---- MODULE Spec2Model ----
(***************************************************************************)
(* Session control plane of ccw: the connection gate (main.go,             *)
(* setupSocketHandlers), the shell module (modules/shell.go), the port     *)
(* monitor module and the file watch module (both in modules/network.go).  *)
(*                                                                         *)
(* Handlers that hold their module's mutex from entry to return are one    *)
(* action each.  SendInput reads the session map under RLock and then      *)
(* works on the session object without any lock, so it is three steps.     *)
(* SpawnInteractiveShell starts the reader goroutine before it emits       *)
(* shell:spawned, so it is two steps with the mutex held in between.       *)
(* Every goroutine (shell reader, watch forwarder, port monitor loop) is   *)
(* a small process of its own.                                             *)
(*                                                                         *)
(* Environment: go-socket.io dispatches the events of one connection one   *)
(* after the other, only after OnConnect returned without closing the      *)
(* connection, and none after the disconnect handler started.  A pseudo    *)
(* terminal reports end of stream to its master side once no process holds *)
(* its slave side: the session's process has exited and so has every       *)
(* descendant that inherited the terminal.                                 *)
(***************************************************************************)
EXTENDS Integers, Sequences, FiniteSets, TLC

\* ---------------------------------------------------------------- bounds
NumConns == 2
MaxSessions == 2
MaxWatchers == 2
MaxMonitors == 2
MaxPaths == 2
NumActivities == 3

Conns == 1..NumConns
SessionIds == 1..MaxSessions
WatcherIds == 1..MaxWatchers
MonitorIds == 1..MaxMonitors
Paths == 1..MaxPaths
Activities == 1..NumActivities

\* "no connection", "no session": the zero value of an id
NoConn == 0
NoSid == 0

VARIABLES
    conn,       \* connection lifecycle: new, open, disc_fs, disc_net, disc_shell, closed, rejected
    query,      \* index in QueryList of the handshake query the connection presented (0: none yet)
    handler,    \* the event handler the connection's read loop is inside of (Idle or a record)
    sessions,   \* ShellModule.sessions: the session ids that are keys of the map
    clients,    \* ShellModule.clients: clientID -> sequence of session ids (a partial function)
    shellMu,    \* ShellModule.mutex: NoConn when free, else the connection whose spawn holds it
    sessOwner,  \* ShellSession.ClientID of every session object ever created (NoConn: never created)
    sessActive, \* ShellSession.Active
    proc,       \* the session's child process: none, running, dying (fatal signal pending), exited
    reaped,     \* cmd.Wait() has returned for the session's process
    exitCode,   \* exit code of an exited process (-1: ended by a signal)
    pty,        \* the session's pseudo-terminal: none, open, hup (slave side closed), closed
    ptyCloses,  \* number of Close calls made on the session's pseudo-terminal
    reader,     \* the reader goroutine: none, scan, wait, defer, done
    exitEvents, \* the exit codes of the shell:exit events emitted for the session, in order
    watchers,   \* FileSystemModule.watchers: <<clientID, path>> -> watcher id (a partial function)
    fsClients,  \* FileSystemModule.clients: clientID -> set of watched paths (a partial function)
    wKey,       \* the <<clientID, path>> a watcher object was created for (<<NoConn, 0>>: never created)
    wCloses,    \* number of Close calls made on the watcher
    wLoop,      \* the forwarding goroutine of the watcher: none, run, done
    monitors,   \* NetworkModule.monitors: <<connID, protocol, iface>> -> monitor id (a partial function)
    mKey,       \* the key a PortMonitor object was created for
    mRunning,   \* PortMonitor.running
    mStopCloses,\* number of close(pm.stop) executed on the monitor
    mLoop,      \* runPortMonitor of the monitor: none, select, tick, done
    mPrev,      \* PortMonitor.previous
    table,      \* /proc/net/tcp and /proc/net/udp: protocol -> the local ports of its rows
    observe,    \* whether events and system calls are recorded (fixed by the initial state)
    eval,       \* a helper function evaluated on its own: its name, arguments and result
    script,     \* per activity: the lock operations left of the function it is running
    lk,         \* per mutex: its writer, the writers queued for it, its readers, the readers blocked
    emitted,    \* the events the last step emitted, in order
    sys         \* the operating system calls the last step made, in order

connVars == <<conn, query, handler>>
shellVars == <<sessions, clients, shellMu, sessOwner, sessActive, proc, reaped, exitCode,
               pty, ptyCloses, reader, exitEvents>>
fsVars == <<watchers, fsClients, wKey, wCloses, wLoop>>
netVars == <<monitors, mKey, mRunning, mStopCloses, mLoop, mPrev, table>>
obsVars == <<observe, eval, emitted, sys>>
lockVars == <<script, lk>>
vars == <<connVars, shellVars, fsVars, netVars, lockVars, obsVars>>

Idle == [op |-> "idle", sid |-> NoSid]

\* what a step records of the events or system calls `out` it makes
Rec(out) == IF observe THEN out ELSE <<>>

\* ------------------------------------------------------- connection gate
\* Strings the gate inspects are sequences of one-character strings.
authToken == <<"t", "k">>

QueryList ==
    << <<"a","u","t","h","=","t","k">>,                              \* auth=tk
       <<"t","o","k","e","n","=","t","k">>,                          \* token=tk
       <<>>,                                                         \* (no query)
       <<"a","u","t","h","=","t">>,                                  \* auth=t
       <<"a","u","t","h","=","t","k","x">>,                          \* auth=tkx
       <<"E","=","3","&","a","u","t","h","=","t","k">>,              \* E=3&auth=tk
       <<"a","u","t","h","=","x","&","t","o","k","e","n","=","t","k">>, \* auth=x&token=tk
       <<"x","a","u","t","h","=","t","k">> >>                        \* xauth=tk
Queries == 1..Len(QueryList)

\* strings.Split(s, sep) for a one-character separator: always at least one field
RECURSIVE SplitFrom(_, _, _, _)
SplitFrom(s, sep, i, cur) ==
    IF i > Len(s) THEN <<cur>>
    ELSE IF s[i] = sep THEN <<cur>> \o SplitFrom(s, sep, i + 1, <<>>)
    ELSE SplitFrom(s, sep, i + 1, Append(cur, s[i]))

Split(s, sep) == SplitFrom(s, sep, 1, <<>>)

HasPrefix(s, p) == Len(s) >= Len(p) /\ SubSeq(s, 1, Len(p)) = p

\* strings.CutPrefix(s, p): the rest after the prefix and whether it was there
CutPrefix(s, p) ==
    IF HasPrefix(s, p) THEN [after |-> SubSeq(s, Len(p) + 1, Len(s)), ok |-> TRUE]
    ELSE [after |-> s, ok |-> FALSE]

AuthPrefix == <<"a","u","t","h","=">>

\* a gate that accepts every value the secret is a prefix of
authProvided_Prefix(rawQuery) ==
    LET queryParams == Split(rawQuery, "&")
    IN \E i \in 1..Len(queryParams) :
           LET cut == CutPrefix(queryParams[i], AuthPrefix)
           IN cut.ok /\ HasPrefix(cut.after, authToken)

\* the loop of OnConnect over the handshake parameters
authProvided(rawQuery) ==
    LET queryParams == Split(rawQuery, "&")
    IN \E i \in 1..Len(queryParams) :
           LET cut == CutPrefix(queryParams[i], AuthPrefix)
           IN cut.ok /\ cut.after = authToken

\* server.OnConnect: an unauthorised connection is closed, an authorised one is served
OnConnect(c, q) ==
    /\ conn[c] = "new"
    /\ query' = [query EXCEPT ![c] = q]
    /\ conn' = [conn EXCEPT ![c] = IF authProvided(QueryList[q]) THEN "open" ELSE "rejected"]
    /\ emitted' = <<>>
    /\ sys' = <<>>
    /\ UNCHANGED <<handler, shellVars, fsVars, netVars>>
    /\ UNCHANGED <<observe, eval, lockVars>>

\* server.OnDisconnect is entered: no further event of the connection is dispatched
OnDisconnect(c) ==
    /\ conn[c] = "open"
    /\ conn' = [conn EXCEPT ![c] = "disc_fs"]
    /\ emitted' = <<>>
    /\ sys' = <<>>
    /\ UNCHANGED <<query, handler, shellVars, fsVars, netVars>>
    /\ UNCHANGED <<observe, eval, lockVars>>

\* an event of connection c can be dispatched to its handler
CanServe(c) == conn[c] = "open" /\ handler[c] = Idle

\* ------------------------------------------------------------ shell module
ExitCodes == {0, 1}
SignalExit == -1

ShellEv(to, name, msg, sid, code) ==
    [to |-> to, name |-> name, msg |-> msg, sid |-> sid, code |-> code]

SysCall(call, obj, ok) == [call |-> call, obj |-> obj, ok |-> ok]

\* a removal that leaves the index as it was
RemoveFirst_Keep(seq, x) == seq

\* KillSession, "Remove from client sessions": the first occurrence of the id is cut out
RECURSIVE RemoveFirst(_, _)
RemoveFirst(seq, x) ==
    IF seq = <<>> THEN <<>>
    ELSE IF Head(seq) = x THEN Tail(seq)
    ELSE <<Head(seq)>> \o RemoveFirst(Tail(seq), x)

SeqSet(seq) == {seq[i] : i \in 1..Len(seq)}

\* the numbers of a finite set in ascending order
RECURSIVE Ascending(_)
Ascending(S) ==
    IF S = {} THEN <<>>
    ELSE LET m == CHOOSE x \in S : \A y \in S : x <= y
         IN <<m>> \o Ascending(S \ {m})

\* sm.clients[clientID], nil when the key is absent
ClientSessions(c) == IF c \in DOMAIN clients THEN clients[c] ELSE <<>>

\* uuid.New(): an id no session object has had
FreshSids == {s \in SessionIds : sessOwner[s] = NoConn}
NewSid == CHOOSE s \in FreshSids : \A t \in FreshSids : s <= t

\* a spawn that goes on to register the session whatever pty.Start returned
StartFailed_Ignored(started) == FALSE

\* "if err != nil" after pty.Start(cmd)
StartFailed(started) == ~started

\* SpawnInteractiveShell up to the start of the reader goroutine; `started` tells
\* whether pty.Start succeeds
SpawnInteractiveShell(c, started) ==
    /\ CanServe(c)
    /\ shellMu = NoConn
    /\ \/ /\ StartFailed(started)
          /\ emitted' = Rec(<<ShellEv(c, "shell:error", "Failed to start shell", NoSid, 0)>>)
          /\ sys' = <<>>
          /\ UNCHANGED <<connVars, shellVars>>
       \/ /\ ~StartFailed(started)
          /\ FreshSids # {}
          /\ LET sid == NewSid
             IN /\ sessOwner' = [sessOwner EXCEPT ![sid] = c]
                /\ sessActive' = [sessActive EXCEPT ![sid] = TRUE]
                /\ proc' = [proc EXCEPT ![sid] = "running"]
                /\ pty' = [pty EXCEPT ![sid] = "open"]
                /\ sessions' = sessions \cup {sid}
                /\ clients' = [x \in DOMAIN clients \cup {c} |->
                                  IF x = c THEN Append(ClientSessions(c), sid) ELSE clients[x]]
                /\ reader' = [reader EXCEPT ![sid] = "scan"]
                /\ handler' = [handler EXCEPT ![c] = [op |-> "spawn", sid |-> sid]]
          /\ shellMu' = c
          /\ emitted' = <<>>
          /\ sys' = <<>>
          /\ UNCHANGED <<conn, query, reaped, exitCode, ptyCloses, exitEvents>>
    /\ UNCHANGED <<fsVars, netVars>>
    /\ UNCHANGED <<observe, eval, lockVars>>

\* the rest of SpawnInteractiveShell: shell:spawned is emitted, the mutex released
SpawnEmit(c) ==
    /\ handler[c].op = "spawn"
    /\ emitted' = Rec(<<ShellEv(c, "shell:spawned", "", handler[c].sid, 0)>>)
    /\ sys' = <<>>
    /\ shellMu' = NoConn
    /\ handler' = [handler EXCEPT ![c] = Idle]
    /\ UNCHANGED <<conn, query, sessions, clients, sessOwner, sessActive, proc, reaped,
                   exitCode, pty, ptyCloses, reader, exitEvents, fsVars, netVars>>
    /\ UNCHANGED <<observe, eval, lockVars>>

\* the reader goroutine forwards one line of terminal output
ReaderOutput(s) ==
    /\ reader[s] = "scan"
    /\ emitted' = Rec(<<ShellEv(sessOwner[s], "shell:output", "", s, 0)>>)
    /\ sys' = <<>>
    /\ UNCHANGED <<connVars, shellVars, fsVars, netVars>>
    /\ UNCHANGED <<observe, eval, lockVars>>

\* scanner.Scan() returns false: the read fails once the slave side is closed
ReaderScanEnd(s) ==
    /\ reader[s] = "scan"
    /\ pty[s] = "hup"
    /\ reader' = [reader EXCEPT ![s] = "wait"]
    /\ emitted' = <<>>
    /\ sys' = <<>>
    /\ UNCHANGED <<connVars, sessions, clients, shellMu, sessOwner, sessActive, proc, reaped,
                   exitCode, pty, ptyCloses, exitEvents, fsVars, netVars>>
    /\ UNCHANGED <<observe, eval, lockVars>>

\* scanner.Scan() returns false on a line longer than the scanner's buffer
ReaderScanErr(s) ==
    /\ reader[s] = "scan"
    /\ pty[s] = "open"
    /\ reader' = [reader EXCEPT ![s] = "wait"]
    /\ emitted' = <<>>
    /\ sys' = <<>>
    /\ UNCHANGED <<connVars, sessions, clients, shellMu, sessOwner, sessActive, proc, reaped,
                   exitCode, pty, ptyCloses, exitEvents, fsVars, netVars>>
    /\ UNCHANGED <<observe, eval, lockVars>>

\* the exit codes of the events emitted after cmd.Wait(): 0 when it returns nil, that
\* of the ExitError when the process failed or was ended by a signal
ExitCodesEmitted(s) == <<exitCode[s]>>

\* cmd.Wait() returns and the exit event is emitted
ReaderWait(s) ==
    /\ reader[s] = "wait"
    /\ proc[s] = "exited"
    /\ reaped' = [reaped EXCEPT ![s] = TRUE]
    /\ emitted' = Rec([i \in 1..Len(ExitCodesEmitted(s)) |->
                          ShellEv(sessOwner[s], "shell:exit", "", s, ExitCodesEmitted(s)[i])])
    /\ exitEvents' = [exitEvents EXCEPT ![s] = @ \o ExitCodesEmitted(s)]
    /\ reader' = [reader EXCEPT ![s] = "defer"]
    /\ sys' = <<>>
    /\ UNCHANGED <<connVars, sessions, clients, shellMu, sessOwner, sessActive, proc,
                   exitCode, pty, ptyCloses, fsVars, netVars>>
    /\ UNCHANGED <<observe, eval, lockVars>>

\* the deferred function of the reader goroutine
ReaderCleanup(s) ==
    /\ reader[s] = "defer"
    /\ shellMu = NoConn
    /\ sessActive' = [sessActive EXCEPT ![s] = FALSE]
    /\ pty' = [pty EXCEPT ![s] = "closed"]
    /\ ptyCloses' = [ptyCloses EXCEPT ![s] = @ + 1]
    /\ reader' = [reader EXCEPT ![s] = "done"]
    /\ emitted' = <<>>
    /\ sys' = Rec(<<SysCall("pty.Close", s, pty[s] # "closed")>>)
    /\ UNCHANGED <<connVars, sessions, clients, shellMu, sessOwner, proc, reaped,
                   exitCode, exitEvents, fsVars, netVars>>
    /\ UNCHANGED <<observe, eval, lockVars>>

\* the slave side of the terminal when the session's process ends: closed with it
\* (last), or still held by a descendant the process started
SlaveAfterExit(s, last) ==
    IF last /\ pty[s] = "open" THEN [pty EXCEPT ![s] = "hup"] ELSE pty

\* the child process exits by itself
ProcExit(s, code, last) ==
    /\ proc[s] = "running"
    /\ proc' = [proc EXCEPT ![s] = "exited"]
    /\ exitCode' = [exitCode EXCEPT ![s] = code]
    /\ pty' = SlaveAfterExit(s, last)
    /\ emitted' = <<>>
    /\ sys' = <<>>
    /\ UNCHANGED <<connVars, sessions, clients, shellMu, sessOwner, sessActive, reaped,
                   ptyCloses, reader, exitEvents, fsVars, netVars>>
    /\ UNCHANGED <<observe, eval, lockVars>>

\* the child process is ended by a signal it does not survive
ProcDie(s, last) ==
    /\ proc[s] = "dying"
    /\ proc' = [proc EXCEPT ![s] = "exited"]
    /\ exitCode' = [exitCode EXCEPT ![s] = SignalExit]
    /\ pty' = SlaveAfterExit(s, last)
    /\ emitted' = <<>>
    /\ sys' = <<>>
    /\ UNCHANGED <<connVars, sessions, clients, shellMu, sessOwner, sessActive, reaped,
                   ptyCloses, reader, exitEvents, fsVars, netVars>>
    /\ UNCHANGED <<observe, eval, lockVars>>

\* the last descendant that held the terminal of an exited process goes away
DescendantExit(s) ==
    /\ proc[s] = "exited"
    /\ pty[s] = "open"
    /\ pty' = [pty EXCEPT ![s] = "hup"]
    /\ emitted' = <<>>
    /\ sys' = <<>>
    /\ UNCHANGED <<connVars, sessions, clients, shellMu, sessOwner, sessActive, proc, reaped,
                   exitCode, ptyCloses, reader, exitEvents, fsVars, netVars>>
    /\ UNCHANGED <<observe, eval, lockVars>>

\* an ownership check that lets every connection through
Owns_Anyone(c, sid) == TRUE

\* "Verify client owns this session": session.ClientID against conn.ID()
Owns(c, sid) == sessOwner[sid] = c

\* Process.Signal(SIGTERM): fails once the process has been waited for; a running
\* process either ends or ignores the signal
SignalTerm(s, ends) ==
    IF reaped[s] THEN proc
    ELSE IF proc[s] = "running" /\ ends THEN [proc EXCEPT ![s] = "dying"]
    ELSE proc

\* Process.Kill(): SIGKILL cannot be ignored
SignalKill(p, s) ==
    IF ~reaped[s] /\ p[s] = "running" THEN [p EXCEPT ![s] = "dying"] ELSE p

\* KillSession, the whole handler (it holds the mutex from entry to return)
KillSession(c, sid, ends) ==
    /\ CanServe(c)
    /\ shellMu = NoConn
    /\ IF sid \notin sessions
       THEN /\ emitted' = Rec(<<ShellEv(c, "shell:error", "Session not found", sid, 0)>>)
            /\ sys' = <<>>
            /\ UNCHANGED shellVars
       ELSE IF ~Owns(c, sid)
       THEN /\ emitted' = Rec(<<ShellEv(c, "shell:error", "Access denied", sid, 0)>>)
            /\ sys' = <<>>
            /\ UNCHANGED shellVars
       ELSE /\ proc' = SignalTerm(sid, ends)
            /\ sys' = Rec(IF reaped[sid]
                      THEN <<SysCall("SIGTERM", sid, FALSE), SysCall("SIGKILL", sid, FALSE)>>
                      ELSE <<SysCall("SIGTERM", sid, TRUE)>>)
            /\ sessActive' = [sessActive EXCEPT ![sid] = FALSE]
            /\ sessions' = sessions \ {sid}
            /\ clients' = IF c \in DOMAIN clients
                          THEN [clients EXCEPT ![c] = RemoveFirst(@, sid)]
                          ELSE clients
            /\ emitted' = Rec(<<ShellEv(c, "shell:killed", "", sid, 0)>>)
            /\ UNCHANGED <<shellMu, sessOwner, reaped, exitCode, pty, ptyCloses, reader,
                           exitEvents>>
    /\ UNCHANGED <<connVars, fsVars, netVars>>
    /\ UNCHANGED <<observe, eval, lockVars>>

\* SendInput, lines 229-248: the lookup under RLock and the ownership check
SendInputLookup(c, sid) ==
    /\ CanServe(c)
    /\ shellMu = NoConn
    /\ IF sid \notin sessions
       THEN /\ emitted' = Rec(<<ShellEv(c, "shell:error", "Session not found", sid, 0)>>)
            /\ UNCHANGED handler
       ELSE IF ~Owns(c, sid)
       THEN /\ emitted' = Rec(<<ShellEv(c, "shell:error", "Access denied", sid, 0)>>)
            /\ UNCHANGED handler
       ELSE /\ emitted' = <<>>
            /\ handler' = [handler EXCEPT ![c] = [op |-> "input_check", sid |-> sid]]
    /\ sys' = <<>>
    /\ UNCHANGED <<conn, query, shellVars, fsVars, netVars>>
    /\ UNCHANGED <<observe, eval, lockVars>>

\* SendInput, lines 250-256: session.Active is read without the mutex
SendInputCheck(c) ==
    /\ handler[c].op = "input_check"
    /\ IF ~sessActive[handler[c].sid]
       THEN /\ emitted' = Rec(<<ShellEv(c, "shell:error", "Session is not active", handler[c].sid, 0)>>)
            /\ handler' = [handler EXCEPT ![c] = Idle]
       ELSE /\ emitted' = <<>>
            /\ handler' = [handler EXCEPT ![c] = [op |-> "input_write", sid |-> handler[c].sid]]
    /\ sys' = <<>>
    /\ UNCHANGED <<conn, query, shellVars, fsVars, netVars>>
    /\ UNCHANGED <<observe, eval, lockVars>>

\* SendInput, lines 258-266: the write to the pseudo-terminal, which fails on a closed
\* file and may fail on an open one
SendInputWrite(c, ok) ==
    /\ handler[c].op = "input_write"
    /\ LET sid == handler[c].sid
           done == ok /\ pty[sid] # "closed"
       IN /\ sys' = Rec(<<SysCall(IF pty[sid] = "closed" THEN "pty.Write(closed)" ELSE "pty.Write",
                                  sid, done)>>)
          /\ emitted' = Rec(IF done THEN <<>>
                            ELSE <<ShellEv(c, "shell:error", "Failed to send input", sid, 0)>>)
    /\ handler' = [handler EXCEPT ![c] = Idle]
    /\ UNCHANGED <<conn, query, shellVars, fsVars, netVars>>
    /\ UNCHANGED <<observe, eval, lockVars>>

\* the loop of ShellModule.CleanupConnection over the ids of sm.clients[clientID]
RECURSIVE KillAll(_, _, _)
KillAll(ids, reg, p) ==
    IF ids = <<>> THEN p
    ELSE KillAll(Tail(ids), reg, IF Head(ids) \in reg THEN SignalKill(p, Head(ids)) ELSE p)

\* a cleanup that kills the processes and forgets delete(sm.sessions, sessionID)
RemainingSessions_KeepAll(c) == sessions

\* sm.sessions after the loop of CleanupConnection: every listed id is deleted
RemainingSessions(c) == sessions \ SeqSet(ClientSessions(c))

\* ShellModule.CleanupConnection, the last call of the disconnect handler
ShellCleanupConnection(c) ==
    /\ conn[c] = "disc_shell"
    /\ shellMu = NoConn
    /\ IF c \in DOMAIN clients
       THEN LET ids == clients[c]
                hit == SeqSet(ids) \cap sessions
            IN /\ proc' = KillAll(ids, sessions, proc)
               /\ sessActive' = [s \in SessionIds |-> IF s \in hit THEN FALSE ELSE sessActive[s]]
               /\ sessions' = RemainingSessions(c)
               /\ clients' = [x \in DOMAIN clients \ {c} |-> clients[x]]
               /\ sys' = Rec([i \in 1..Len(SelectSeq(ids, LAMBDA s : s \in sessions)) |->
                             LET s == SelectSeq(ids, LAMBDA x : x \in sessions)[i]
                             IN SysCall("SIGKILL", s, ~reaped[s])])
       ELSE /\ sys' = <<>>
            /\ UNCHANGED <<proc, sessActive, sessions, clients>>
    /\ conn' = [conn EXCEPT ![c] = "closed"]
    /\ emitted' = <<>>
    /\ UNCHANGED <<query, handler, shellMu, sessOwner, reaped, exitCode, pty, ptyCloses,
                   reader, exitEvents, fsVars, netVars>>
    /\ UNCHANGED <<observe, eval, lockVars>>

\* ------------------------------------------------------- file watch module
FsEv(to, name, msg, path) == [to |-> to, name |-> name, msg |-> msg, path |-> path]

NoKey == <<NoConn, 0>>

\* fsnotify.NewWatcher(): an object no watch has had
FreshWatchers == {w \in WatcherIds : wKey[w] = NoKey}
NewWatcher == CHOOSE w \in FreshWatchers : \A x \in FreshWatchers : w <= x

WatchOutcomes == {"ok", "new_fail", "walk_fail"}

\* fsm.clients after "Initialize client map if not exists"
InitClient(c) ==
    [x \in DOMAIN fsClients \cup {c} |-> IF x \in DOMAIN fsClients THEN fsClients[x] ELSE {}]

\* a watch that marks the path as watched before it walks the directories
ClientsAfterFailedWalk_Marked(c, path) == [InitClient(c) EXCEPT ![c] = @ \cup {path}]

\* fsm.clients when WatchFiles returns after a failed walk: only the client map of
\* the requester has been made
ClientsAfterFailedWalk(c, path) == InitClient(c)

\* a check that never finds the path among the client's paths
AlreadyWatching_Never(c, path) == FALSE

\* "Check if already watching this path for this client": fsm.clients[clientID][path]
AlreadyWatching(c, path) == path \in InitClient(c)[c]

\* WatchFiles, the whole handler (it holds the mutex from entry to return)
WatchFiles(c, path, outcome) ==
    /\ CanServe(c)
    /\ IF AlreadyWatching(c, path)
       THEN /\ emitted' = Rec(<<FsEv(c, "fs:error", "Already watching this path", path)>>)
            /\ fsClients' = InitClient(c)
            /\ sys' = <<>>
            /\ UNCHANGED <<watchers, wKey, wCloses, wLoop>>
       ELSE IF outcome = "new_fail"
       THEN /\ emitted' = Rec(<<FsEv(c, "fs:error", "Failed to create watcher", path)>>)
            /\ fsClients' = InitClient(c)
            /\ sys' = <<>>
            /\ UNCHANGED <<watchers, wKey, wCloses, wLoop>>
       ELSE /\ FreshWatchers # {}
            /\ LET w == NewWatcher
               IN /\ wKey' = [wKey EXCEPT ![w] = <<c, path>>]
                  /\ IF outcome = "walk_fail"
                     THEN /\ wCloses' = [wCloses EXCEPT ![w] = @ + 1]
                          /\ sys' = Rec(<<SysCall("watcher.Close", w, TRUE)>>)
                          /\ emitted' = Rec(<<FsEv(c, "fs:error", "Failed to watch path", path)>>)
                          /\ fsClients' = ClientsAfterFailedWalk(c, path)
                          /\ UNCHANGED <<watchers, wLoop>>
                     ELSE /\ watchers' = [k \in DOMAIN watchers \cup {<<c, path>>} |->
                                             IF k = <<c, path>> THEN w ELSE watchers[k]]
                          /\ fsClients' = [InitClient(c) EXCEPT ![c] = @ \cup {path}]
                          /\ wLoop' = [wLoop EXCEPT ![w] = "run"]
                          /\ emitted' = Rec(<<FsEv(c, "fs:watching", "Started watching directory", path)>>)
                          /\ sys' = <<>>
                          /\ UNCHANGED wCloses
    /\ UNCHANGED <<connVars, shellVars, netVars>>
    /\ UNCHANGED <<observe, eval, lockVars>>

\* the forwarding goroutine receives a notification and emits fs:change
WatcherEvent(w) ==
    /\ wLoop[w] = "run"
    /\ wCloses[w] = 0
    /\ emitted' = Rec(<<FsEv(wKey[w][1], "fs:change", "", wKey[w][2])>>)
    /\ sys' = <<>>
    /\ UNCHANGED <<connVars, shellVars, fsVars, netVars>>
    /\ UNCHANGED <<observe, eval, lockVars>>

\* the forwarding goroutine receives an error of the watcher and goes on
WatcherError(w) ==
    /\ wLoop[w] = "run"
    /\ wCloses[w] = 0
    /\ emitted' = Rec(<<FsEv(wKey[w][1], "fs:error", "Watcher error", wKey[w][2])>>)
    /\ sys' = <<>>
    /\ UNCHANGED <<connVars, shellVars, fsVars, netVars>>
    /\ UNCHANGED <<observe, eval, lockVars>>

\* the forwarding goroutine finds its channels closed, returns and runs its deferred Close
WatcherExit(w) ==
    /\ wLoop[w] = "run"
    /\ wCloses[w] > 0
    /\ wLoop' = [wLoop EXCEPT ![w] = "done"]
    /\ wCloses' = [wCloses EXCEPT ![w] = @ + 1]
    /\ sys' = Rec(<<SysCall("watcher.Close", w, FALSE)>>)
    /\ emitted' = <<>>
    /\ UNCHANGED <<connVars, shellVars, watchers, fsClients, wKey, netVars>>
    /\ UNCHANGED <<observe, eval, lockVars>>

\* UnwatchFiles, the whole handler
\* an unwatch that leaves the path marked in the client's index
Unmarked_Kept(c, path) == fsClients

\* UnwatchFiles, lines 895-897: delete(fsm.clients[clientID], path) if the client
\* has an index
Unmarked(c, path) ==
    IF c \in DOMAIN fsClients THEN [fsClients EXCEPT ![c] = @ \ {path}] ELSE fsClients

UnwatchFiles(c, path) ==
    /\ CanServe(c)
    /\ IF <<c, path>> \in DOMAIN watchers
       THEN LET w == watchers[<<c, path>>]
            IN /\ wCloses' = [wCloses EXCEPT ![w] = @ + 1]
               /\ sys' = Rec(<<SysCall("watcher.Close", w, wCloses[w] = 0)>>)
               /\ watchers' = [k \in DOMAIN watchers \ {<<c, path>>} |-> watchers[k]]
               /\ fsClients' = Unmarked(c, path)
               /\ emitted' = Rec(<<FsEv(c, "fs:unwatched", "Stopped watching directory", path)>>)
       ELSE /\ emitted' = Rec(<<FsEv(c, "fs:error", "Path not being watched", path)>>)
            /\ sys' = <<>>
            /\ UNCHANGED <<watchers, fsClients, wCloses>>
    /\ UNCHANGED <<connVars, shellVars, wKey, wLoop, netVars>>
    /\ UNCHANGED <<observe, eval, lockVars>>

\* FileSystemModule.CleanupConnection, the first call of the disconnect handler
FsCleanupConnection(c) ==
    /\ conn[c] = "disc_fs"
    /\ IF c \in DOMAIN fsClients
       THEN LET keys == {<<c, path>> : path \in fsClients[c]} \cap DOMAIN watchers
                hit == {watchers[k] : k \in keys}
            IN /\ wCloses' = [w \in WatcherIds |-> IF w \in hit THEN wCloses[w] + 1 ELSE wCloses[w]]
               /\ watchers' = [k \in DOMAIN watchers \ keys |-> watchers[k]]
               /\ fsClients' = [x \in DOMAIN fsClients \ {c} |-> fsClients[x]]
               /\ sys' = Rec([i \in 1..Cardinality(hit) |->
                             SysCall("watcher.Close", Ascending(hit)[i], wCloses[Ascending(hit)[i]] = 0)])
       ELSE /\ sys' = <<>>
            /\ UNCHANGED <<watchers, fsClients, wCloses>>
    /\ conn' = [conn EXCEPT ![c] = "disc_net"]
    /\ emitted' = <<>>
    /\ UNCHANGED <<query, handler, shellVars, wKey, wLoop, netVars>>
    /\ UNCHANGED <<observe, eval, lockVars>>

\* ------------------------------------------------------ port monitor module
MaxPorts == 1
Ports == 1..MaxPorts
\* A protocol or interface argument is the sequence of the parts that its "_"
\* separate: <<"eth", "0">> is the string eth_0.
Tcp == <<"tcp">>
Udp == <<"udp">>
Both == <<"both">>
Protocols == {Tcp, Udp, Both}

\* the interface argument that selects every local address
AnyIface == <<"any">>
\* the local address the sockets of the model are bound to
BoundIP == <<"0.0.0.0">>

\* the (protocol, interface) arguments tried: the three protocols on any interface,
\* tcp on eth_0, and a protocol the module does not know, tcp_eth, on 0
MonitorArgs ==
    {<<pr, AnyIface>> : pr \in Protocols}
    \cup {<< Tcp, <<"eth", "0">> >>, << <<"tcp", "eth">>, <<"0">> >>}
Intervals == {0, 5}
DefaultInterval == 2

\* time.Now().Unix() as read by a tick of a monitor loop; NoTime where the time
\* stamp of an event is left out of the model
Times == {1, 2}
NoTime == 0

NetEv(to, name, msg, protocol, iface, interval, changes, timestamp) ==
    [to |-> to, name |-> name, msg |-> msg, protocol |-> protocol, iface |-> iface,
     interval |-> interval, changes |-> changes, timestamp |-> timestamp]

\* the conn, protocol and iface fields of a PortMonitor that does not exist yet
NoMonitorKey == [conn |-> NoConn, protocol |-> <<>>, iface |-> <<>>]

\* fmt.Sprintf("%s_%s_%s", conn.ID(), protocol, iface): the parts of the three
\* strings in a row (a connection id is a number and holds no "_")
MonitorID(c, protocol, iface) == <<c>> \o protocol \o iface

FreshMonitors == {m \in MonitorIds : mKey[m] = NoMonitorKey}
NewMonitor == CHOOSE m \in FreshMonitors : \A x \in FreshMonitors : m <= x

\* the switch of StartPortMonitoring: the socket tables a protocol argument names
ProtocolList(protocol) ==
    CASE protocol = Tcp -> {"tcp"}
      [] protocol = Udp -> {"udp"}
      [] protocol = Both -> {"tcp", "udp"}
      [] OTHER -> {}

\* a map[int]bool whose keys are the ports of S: the two functions that build one
\* store no other value than true
PortMap(S) == [port \in S |-> TRUE]

\* map[port] of Go: the zero value for a key the map does not hold
Lookup(map, port) == IF port \in DOMAIN map THEN map[port] ELSE FALSE

\* parsePortsFile: the ports of the rows of one socket table whose local address
\* the interface argument selects ("any", or the address itself)
parsePortsFile(protocol, iface) ==
    PortMap({port \in table[protocol] : ~(iface # AnyIface /\ iface # BoundIP)})

\* getListeningPorts: ports[port] = true for every port of every named table
ListeningPorts(protocols, iface) ==
    PortMap(UNION {DOMAIN parsePortsFile(p, iface) : p \in protocols})

\* one loop of diffPorts: append every key of `keys` that `other` does not hold
RECURSIVE AppendMissing(_, _)
AppendMissing(keys, other) ==
    IF keys = <<>> THEN <<>>
    ELSE (IF ~Lookup(other, Head(keys)) THEN <<Head(keys)>> ELSE <<>>)
         \o AppendMissing(Tail(keys), other)

\* a diffPorts that reports every port of the current table as opened
diffPorts_AllOpened(old, current) ==
    [opened |-> Ascending(DOMAIN current),
     closed |-> AppendMissing(Ascending(DOMAIN old), current)]

\* diffPorts: two slices, built by ranging over the two maps (in ascending order
\* of the keys here; Go ranges over a map in no fixed order)
diffPorts(old, current) ==
    [opened |-> AppendMissing(Ascending(DOMAIN current), old),
     closed |-> AppendMissing(Ascending(DOMAIN old), current)]

\* the entries of a port-changes batch for one of the two slices
ChangeEntries(ports, status, protocol, iface, timestamp) ==
    [i \in 1..Len(ports) |->
        [port |-> ports[i], status |-> status, protocol |-> protocol, iface |-> iface,
         timestamp |-> timestamp]]

\* a loop that emits a batch on every tick
Changed_Always(d) == TRUE

\* len(opened) > 0 || len(closed) > 0
Changed(d) == Len(d.opened) > 0 \/ Len(d.closed) > 0

\* a loop that keeps the first sample for ever
PreviousAfterTick_Stale(old, current) == old

\* monitor.previous = current
PreviousAfterTick(old, current) == current

\* a Stop that closes the channel without looking at the running flag
StopCloses_Unguarded(m) == [mStopCloses EXCEPT ![m] = @ + 1]

\* PortMonitor.Stop: the running flag guards the close of the stop channel
StopRunning(m) == [mRunning EXCEPT ![m] = FALSE]
StopCloses(m) == IF mRunning[m] THEN [mStopCloses EXCEPT ![m] = @ + 1] ELSE mStopCloses
StopCalls(m) == IF mRunning[m] THEN <<SysCall("close(stop)", m, mStopCloses[m] = 0)>> ELSE <<>>

\* StartPortMonitoring, the whole handler (it holds monitorMu from entry to return)
StartPortMonitoring(c, protocol, iface, interval) ==
    /\ CanServe(c)
    /\ LET monitorID == MonitorID(c, protocol, iface)
           exists == monitorID \in DOMAIN monitors
           stopped == IF exists THEN StopRunning(monitors[monitorID]) ELSE mRunning
       IN IF protocol \notin Protocols
          THEN /\ mRunning' = stopped
               /\ mStopCloses' = IF exists THEN StopCloses(monitors[monitorID]) ELSE mStopCloses
               /\ sys' = Rec(IF exists THEN StopCalls(monitors[monitorID]) ELSE <<>>)
               /\ emitted' = Rec(<<NetEv(c, "net:error", "Invalid protocol. Use 'tcp', 'udp', or 'both'",
                                     <<>>, <<>>, 0, <<>>, NoTime)>>)
               /\ UNCHANGED <<monitors, mKey, mLoop, mPrev>>
          ELSE /\ FreshMonitors # {}
               /\ LET m == NewMonitor
                  IN /\ mRunning' = [stopped EXCEPT ![m] = TRUE]
                     /\ mKey' = [mKey EXCEPT ![m] =
                                     [conn |-> c, protocol |-> protocol, iface |-> iface]]
                     /\ mPrev' = [mPrev EXCEPT ![m] = ListeningPorts(ProtocolList(protocol), iface)]
                     /\ mLoop' = [mLoop EXCEPT ![m] = "select"]
                     /\ monitors' = [k \in DOMAIN monitors \cup {monitorID} |->
                                        IF k = monitorID THEN m ELSE monitors[k]]
               /\ mStopCloses' = IF exists THEN StopCloses(monitors[monitorID]) ELSE mStopCloses
               /\ sys' = Rec(IF exists THEN StopCalls(monitors[monitorID]) ELSE <<>>)
               /\ emitted' = Rec(<<NetEv(c, "net:monitor:started", "", protocol, iface,
                                     IF interval < 1 THEN DefaultInterval ELSE interval,
                                     <<>>, NoTime)>>)
    /\ UNCHANGED <<connVars, shellVars, fsVars, table>>
    /\ UNCHANGED <<observe, eval, lockVars>>

\* a stop that leaves the entry in the map
WithoutMonitor_Keep(monitorID) == monitors

\* delete(nm.monitors, monitorID)
WithoutMonitor(monitorID) == [k \in DOMAIN monitors \ {monitorID} |-> monitors[k]]

\* StopPortMonitoring, the whole handler: an absent monitor is no error and no event
StopPortMonitoring(c, protocol, iface) ==
    /\ CanServe(c)
    /\ LET monitorID == MonitorID(c, protocol, iface)
       IN IF monitorID \in DOMAIN monitors
          THEN LET m == monitors[monitorID]
               IN /\ mRunning' = StopRunning(m)
                  /\ mStopCloses' = StopCloses(m)
                  /\ sys' = Rec(StopCalls(m))
                  /\ monitors' = WithoutMonitor(monitorID)
                  /\ emitted' = Rec(<<NetEv(c, "net:monitor:stopped", "", protocol, iface, 0,
                                            <<>>, NoTime)>>)
          ELSE /\ emitted' = <<>>
               /\ sys' = <<>>
               /\ UNCHANGED <<monitors, mRunning, mStopCloses>>
    /\ UNCHANGED <<connVars, shellVars, fsVars, mKey, mLoop, mPrev, table>>
    /\ UNCHANGED <<observe, eval, lockVars>>

\* a cleanup that takes every monitor for one of the connection
MonitorsOf_Everyone(c) == DOMAIN monitors

\* CleanupConnection: the ids with the prefix connectionID + "_"
MonitorsOf(c) == {k \in DOMAIN monitors : k[1] = c}

\* NetworkModule.CleanupConnection, the second call of the disconnect handler.  The
\* monitors of a connection are those whose id starts with connectionID + "_"; a
\* connection id holds no "_", so these are the keys whose first part is the id.
NetCleanupConnection(c) ==
    /\ conn[c] = "disc_net"
    /\ LET toDelete == MonitorsOf(c)
           hit == {monitors[k] : k \in toDelete}
       IN /\ mRunning' = [m \in MonitorIds |-> IF m \in hit THEN FALSE ELSE mRunning[m]]
          /\ mStopCloses' = [m \in MonitorIds |->
                                IF m \in hit /\ mRunning[m] THEN mStopCloses[m] + 1
                                ELSE mStopCloses[m]]
          /\ sys' = Rec(LET ran == Ascending({m \in hit : mRunning[m]})
                    IN [i \in 1..Len(ran) |-> SysCall("close(stop)", ran[i], mStopCloses[ran[i]] = 0)])
          /\ monitors' = [k \in DOMAIN monitors \ toDelete |-> monitors[k]]
    /\ conn' = [conn EXCEPT ![c] = "disc_shell"]
    /\ emitted' = <<>>
    /\ UNCHANGED <<query, handler, shellVars, fsVars, mKey, mLoop, mPrev, table>>
    /\ UNCHANGED <<observe, eval, lockVars>>

\* runPortMonitor, select: the stop channel is closed and the loop returns
MonitorStopSeen(m) ==
    /\ mLoop[m] = "select"
    /\ mStopCloses[m] > 0
    /\ mLoop' = [mLoop EXCEPT ![m] = "done"]
    /\ emitted' = <<>>
    /\ sys' = <<>>
    /\ UNCHANGED <<connVars, shellVars, fsVars, monitors, mKey, mRunning, mStopCloses, mPrev, table>>
    /\ UNCHANGED <<observe, eval, lockVars>>

\* a loop that enters the tick body without looking at the running flag
AfterTicker_Unchecked(m) == "tick"

\* runPortMonitor, lines 292-297: the running check at the head of the ticker case
AfterTicker(m) == IF mRunning[m] THEN "tick" ELSE "done"

\* runPortMonitor, select: the ticker fires; the loop returns if the monitor is not running
MonitorTick(m) ==
    /\ mLoop[m] = "select"
    /\ mLoop' = [mLoop EXCEPT ![m] = AfterTicker(m)]
    /\ emitted' = <<>>
    /\ sys' = <<>>
    /\ UNCHANGED <<connVars, shellVars, fsVars, monitors, mKey, mRunning, mStopCloses, mPrev, table>>
    /\ UNCHANGED <<observe, eval, lockVars>>

\* runPortMonitor, lines 299-332: sample, diff, emit one batch if anything changed
MonitorSample(m) ==
    /\ mLoop[m] = "tick"
    /\ LET protocol == mKey[m].protocol
           iface == mKey[m].iface
           current == ListeningPorts(ProtocolList(protocol), iface)
           d == diffPorts(mPrev[m], current)
       IN /\ IF Changed(d)
             THEN \E timestamp \in Times :
                      emitted' = Rec(<<NetEv(mKey[m].conn, "net:port:changes", "", <<>>, <<>>, 0,
                                         ChangeEntries(d.opened, "opened", protocol, iface, timestamp)
                                         \o ChangeEntries(d.closed, "closed", protocol, iface, timestamp),
                                         timestamp)>>)
             ELSE emitted' = <<>>
          /\ mPrev' = [mPrev EXCEPT ![m] = PreviousAfterTick(mPrev[m], current)]
    /\ mLoop' = [mLoop EXCEPT ![m] = "select"]
    /\ sys' = <<>>
    /\ UNCHANGED <<connVars, shellVars, fsVars, monitors, mKey, mRunning, mStopCloses, table>>
    /\ UNCHANGED <<observe, eval, lockVars>>

\* a socket is bound or released: a row enters or leaves a socket table
TableChange(protocol, port) ==
    /\ table' = [table EXCEPT ![protocol] =
                    IF port \in @ THEN @ \ {port} ELSE @ \cup {port}]
    /\ emitted' = <<>>
    /\ sys' = <<>>
    /\ UNCHANGED <<connVars, shellVars, fsVars, monitors, mKey, mRunning, mStopCloses, mLoop, mPrev>>
    /\ UNCHANGED <<observe, eval, lockVars>>

\* ------------------------------------------------------------ the mutexes
\* Every function of the modules seen as the mutex operations it performs, run by
\* handler, cleanup, reader and polling goroutines.
NoActivity == 0

ShellLock == <<"sm.mutex", 0>>
WatchLock == <<"fsm.mutex", 0>>
MonitorLock == <<"nm.monitorMu", 0>>
OwnLock(m) == <<"pm.mu", m>>

RegistryLocks == {ShellLock, WatchLock, MonitorLock}
Locks == RegistryLocks \cup {OwnLock(m) : m \in MonitorIds}

\* a sync.RWMutex nobody holds or waits for
Unlocked == [writer |-> NoActivity, waiting |-> {}, readers |-> {}, blocked |-> {}]

Op(op, lock) == [op |-> op, lock |-> lock]

\* mutex.Lock() ... mutex.Unlock() around a body that takes no other mutex
Exclusive(lock) == <<Op("Lock", lock), Op("Unlock", lock)>>

\* mutex.RLock() ... mutex.RUnlock() around a body that takes no other mutex
Shared(lock) == <<Op("RLock", lock), Op("RUnlock", lock)>>

\* PortMonitor.Stop: pm.mu.Lock(), defer pm.mu.Unlock()
StopLocks(m) == Exclusive(OwnLock(m))

\* a polling loop that looks the monitor up in the registry while it holds pm.mu
TickLocks_InRegistry(m) ==
    <<Op("RLock", OwnLock(m))>> \o Shared(MonitorLock) \o <<Op("RUnlock", OwnLock(m))>>

\* runPortMonitor, case <-ticker.C: monitor.mu.RLock() around the read of running
TickLocks(m) == Shared(OwnLock(m))

RECURSIVE StopEach(_)
StopEach(ms) == IF ms = <<>> THEN <<>> ELSE StopLocks(Head(ms)) \o StopEach(Tail(ms))

\* the monitors a function stops, in the order it meets them
MonitorSeqs ==
    {ms \in UNION {[1..n -> MonitorIds] : n \in 0..MaxMonitors} :
        \A i \in 1..Len(ms), j \in 1..Len(ms) : ms[i] = ms[j] => i = j}

\* StartPortMonitoring, StopPortMonitoring and NetworkModule.CleanupConnection:
\* nm.monitorMu.Lock(), Stop() of the monitors found, the deferred Unlock()
UnderMonitorLock(ms) == <<Op("Lock", MonitorLock)>> \o StopEach(ms) \o <<Op("Unlock", MonitorLock)>>

\* The functions a goroutine may enter. The disconnect handler calls the three
\* CleanupConnection functions one after the other and holds no mutex in between:
\* it is a goroutine that enters three of these in a row.
Routines ==
    {Exclusive(ShellLock),   \* SpawnInteractiveShell, the reader's deferred function,
                             \* KillSession, ShellModule.CleanupConnection
     Shared(ShellLock),      \* SendInput, ListSessions
     Exclusive(WatchLock)}   \* WatchFiles, UnwatchFiles, FileSystemModule.CleanupConnection
    \cup {UnderMonitorLock(ms) : ms \in MonitorSeqs}
    \cup {TickLocks(m) : m \in MonitorIds}

LockStep(a) ==
    /\ emitted' = <<>>
    /\ sys' = <<>>
    /\ UNCHANGED <<connVars, shellVars, fsVars, netVars, observe, eval>>

NextOp(a, op) == script[a] # <<>> /\ Head(script[a]).op = op
Done(a) == script' = [script EXCEPT ![a] = Tail(@)]

\* a goroutine enters one of the functions
Begin(a, routine) ==
    /\ script[a] = <<>>
    /\ script' = [script EXCEPT ![a] = routine]
    /\ UNCHANGED lk
    /\ LockStep(a)

\* Lock() is called: the goroutine queues for the mutex
Lock(a) ==
    /\ NextOp(a, "Lock")
    /\ LET l == Head(script[a]).lock
       IN /\ a \notin lk[l].waiting
          /\ lk[l].writer # a
          /\ lk' = [lk EXCEPT ![l].waiting = @ \cup {a}]
    /\ UNCHANGED script
    /\ LockStep(a)

\* the queued goroutine becomes the writer: readers that arrive from now on block
LockAcquire(a) ==
    /\ NextOp(a, "Lock")
    /\ LET l == Head(script[a]).lock
       IN /\ a \in lk[l].waiting
          /\ lk[l].writer = NoActivity
          /\ lk' = [lk EXCEPT ![l].waiting = @ \ {a}, ![l].writer = a]
    /\ UNCHANGED script
    /\ LockStep(a)

\* Lock() returns once the readers that held the mutex have left
LockReturn(a) ==
    /\ NextOp(a, "Lock")
    /\ LET l == Head(script[a]).lock
       IN lk[l].writer = a /\ lk[l].readers = {}
    /\ Done(a)
    /\ UNCHANGED lk
    /\ LockStep(a)

\* Unlock(): the blocked readers are let in, the mutex is free for the next writer
Unlock(a) ==
    /\ NextOp(a, "Unlock")
    /\ LET l == Head(script[a]).lock
       IN lk' = [lk EXCEPT ![l].writer = NoActivity, ![l].readers = lk[l].blocked,
                           ![l].blocked = {}]
    /\ Done(a)
    /\ LockStep(a)

\* RLock() is called: it returns at once unless a writer holds or awaits the mutex
RLock(a) ==
    /\ NextOp(a, "RLock")
    /\ LET l == Head(script[a]).lock
       IN /\ a \notin lk[l].readers \cup lk[l].blocked
          /\ IF lk[l].writer = NoActivity
             THEN lk' = [lk EXCEPT ![l].readers = @ \cup {a}] /\ Done(a)
             ELSE lk' = [lk EXCEPT ![l].blocked = @ \cup {a}] /\ UNCHANGED script
    /\ LockStep(a)

\* RLock() returns in a reader the writer's Unlock() let in
RLockReturn(a) ==
    /\ NextOp(a, "RLock")
    /\ a \in lk[Head(script[a]).lock].readers
    /\ Done(a)
    /\ UNCHANGED lk
    /\ LockStep(a)

RUnlock(a) ==
    /\ NextOp(a, "RUnlock")
    /\ lk' = [lk EXCEPT ![Head(script[a]).lock].readers = @ \ {a}]
    /\ Done(a)
    /\ LockStep(a)

\* ------------------------------------------------------------ specifications
\* the state after main has built the server and the three modules
Start ==
    /\ conn = [c \in Conns |-> "new"]
    /\ query = [c \in Conns |-> 0]
    /\ handler = [c \in Conns |-> Idle]
    /\ sessions = {}
    /\ clients = <<>>
    /\ shellMu = NoConn
    /\ sessOwner = [s \in SessionIds |-> NoConn]
    /\ sessActive = [s \in SessionIds |-> FALSE]
    /\ proc = [s \in SessionIds |-> "none"]
    /\ reaped = [s \in SessionIds |-> FALSE]
    /\ exitCode = [s \in SessionIds |-> 0]
    /\ pty = [s \in SessionIds |-> "none"]
    /\ ptyCloses = [s \in SessionIds |-> 0]
    /\ reader = [s \in SessionIds |-> "none"]
    /\ exitEvents = [s \in SessionIds |-> <<>>]
    /\ watchers = <<>>
    /\ fsClients = <<>>
    /\ wKey = [w \in WatcherIds |-> NoKey]
    /\ wCloses = [w \in WatcherIds |-> 0]
    /\ wLoop = [w \in WatcherIds |-> "none"]
    /\ monitors = <<>>
    /\ mKey = [m \in MonitorIds |-> NoMonitorKey]
    /\ mRunning = [m \in MonitorIds |-> FALSE]
    /\ mStopCloses = [m \in MonitorIds |-> 0]
    /\ mLoop = [m \in MonitorIds |-> "none"]
    /\ mPrev = [m \in MonitorIds |-> PortMap({})]
    /\ table = [p \in {"tcp", "udp"} |-> {}]
    /\ script = [a \in Activities |-> <<>>]
    /\ lk = [l \in Locks |-> Unlocked]
    /\ emitted = <<>>
    /\ sys = <<>>

\* no helper function is evaluated on its own
NoCall == [fn |-> "none", args |-> <<>>, done |-> FALSE, result |-> <<>>]

Init == Start /\ observe = TRUE /\ eval = NoCall

\* the same program, run without recording events and system calls
QuietInit == Start /\ observe = FALSE /\ eval = NoCall

\* the handshakes tried where the gate is not the subject: the documented ones
ServedQueries == {1, 2}

GateNext(Q) ==
    \/ \E c \in Conns, q \in Q : OnConnect(c, q)
    \/ \E c \in Conns : OnDisconnect(c)

\* the shell module while its connections are served: the three request handlers,
\* the reader goroutines and the child processes
ServeNext ==
    \/ \E c \in Conns, started \in BOOLEAN : SpawnInteractiveShell(c, started)
    \/ \E c \in Conns : SpawnEmit(c)
    \/ \E c \in Conns, s \in SessionIds, ends \in BOOLEAN : KillSession(c, s, ends)
    \/ \E c \in Conns, s \in SessionIds : SendInputLookup(c, s)
    \/ \E c \in Conns : SendInputCheck(c)
    \/ \E c \in Conns, ok \in BOOLEAN : SendInputWrite(c, ok)
    \/ \E s \in SessionIds : ReaderOutput(s)
    \/ \E s \in SessionIds : ReaderScanEnd(s)
    \/ \E s \in SessionIds : ReaderScanErr(s)
    \/ \E s \in SessionIds : ReaderWait(s)
    \/ \E s \in SessionIds : ReaderCleanup(s)
    \/ \E s \in SessionIds, code \in ExitCodes, last \in BOOLEAN : ProcExit(s, code, last)
    \/ \E s \in SessionIds, last \in BOOLEAN : ProcDie(s, last)
    \/ \E s \in SessionIds : DescendantExit(s)

ShellNext == ServeNext \/ \E c \in Conns : ShellCleanupConnection(c)

FsNext ==
    \/ \E c \in Conns, p \in Paths, o \in WatchOutcomes : WatchFiles(c, p, o)
    \/ \E c \in Conns, p \in Paths : UnwatchFiles(c, p)
    \/ \E c \in Conns : FsCleanupConnection(c)
    \/ \E w \in WatcherIds : WatcherEvent(w)
    \/ \E w \in WatcherIds : WatcherError(w)
    \/ \E w \in WatcherIds : WatcherExit(w)

\* the monitor module while its connections are served: the two request handlers,
\* the polling loops and the kernel's socket table
NetServeNext ==
    \/ \E c \in Conns, a \in MonitorArgs, n \in Intervals :
           StartPortMonitoring(c, a[1], a[2], n)
    \/ \E c \in Conns, a \in MonitorArgs : StopPortMonitoring(c, a[1], a[2])
    \/ \E m \in MonitorIds : MonitorStopSeen(m)
    \/ \E m \in MonitorIds : MonitorTick(m)
    \/ \E m \in MonitorIds : MonitorSample(m)
    \/ \E p \in {"tcp", "udp"}, port \in Ports : TableChange(p, port)

NetNext == NetServeNext \/ \E c \in Conns : NetCleanupConnection(c)

Next == GateNext(ServedQueries) \/ ShellNext \/ FsNext \/ NetNext

\* the whole control plane
Spec == Init /\ [][Next]_vars

\* the disconnect handler's calls into the watch module and the monitor module
DisconnectNext ==
    \/ \E c \in Conns : FsCleanupConnection(c)
    \/ \E c \in Conns : NetCleanupConnection(c)

\* the shell module serving the connections the gate let in, events recorded
ShellSpec ==
    Init /\ [][(\E c \in Conns, q \in ServedQueries : OnConnect(c, q)) \/ ServeNext]_vars

\* Scheduling: a goroutine that can run does run, a handler that was entered returns,
\* a process hit by a fatal signal ends.  No request has to arrive and no process has
\* to exit by itself.
ShellFairness ==
    /\ \A s \in SessionIds :
           /\ WF_vars(ReaderScanEnd(s))
           /\ WF_vars(ReaderWait(s))
           /\ WF_vars(ReaderCleanup(s))
           /\ WF_vars(\E last \in BOOLEAN : ProcDie(s, last))
    /\ \A c \in Conns :
           /\ WF_vars(SpawnEmit(c))
           /\ WF_vars(FsCleanupConnection(c))
           /\ WF_vars(NetCleanupConnection(c))
           /\ WF_vars(ShellCleanupConnection(c))

\* what creates and ends a shell session: spawn, kill, the disconnect cleanup, the
\* reader goroutine and the child process
LifecycleNext ==
    \/ \E c \in Conns, started \in BOOLEAN : SpawnInteractiveShell(c, started)
    \/ \E c \in Conns : SpawnEmit(c)
    \/ \E c \in Conns, s \in SessionIds, ends \in BOOLEAN : KillSession(c, s, ends)
    \/ \E c \in Conns : ShellCleanupConnection(c)
    \/ \E s \in SessionIds : ReaderOutput(s)
    \/ \E s \in SessionIds : ReaderScanEnd(s)
    \/ \E s \in SessionIds : ReaderScanErr(s)
    \/ \E s \in SessionIds : ReaderWait(s)
    \/ \E s \in SessionIds : ReaderCleanup(s)
    \/ \E s \in SessionIds, code \in ExitCodes, last \in BOOLEAN : ProcExit(s, code, last)
    \/ \E s \in SessionIds, last \in BOOLEAN : ProcDie(s, last)
    \/ \E s \in SessionIds : DescendantExit(s)

\* the life of the shell sessions under fair scheduling
FairShellSpec ==
    /\ QuietInit
    /\ [][GateNext(ServedQueries) \/ DisconnectNext \/ LifecycleNext]_vars
    /\ ShellFairness

\* the objects (sessions, watchers, monitors) created so far
Objects ==
    Cardinality({s \in SessionIds : sessOwner[s] # NoConn})
    + Cardinality({w \in WatcherIds : wKey[w] # NoKey})
    + Cardinality({m \in MonitorIds : mKey[m] # NoMonitorKey})

MaxObjects == 3

\* every event handler and the disconnect handler of the three modules
HandlerNext ==
    \/ \E c \in Conns, started \in BOOLEAN : SpawnInteractiveShell(c, started) /\ Objects' <= MaxObjects
    \/ \E c \in Conns : SpawnEmit(c)
    \/ \E c \in Conns, s \in SessionIds, ends \in BOOLEAN : KillSession(c, s, ends)
    \/ \E c \in Conns, s \in SessionIds : SendInputLookup(c, s)
    \/ \E c \in Conns : SendInputCheck(c)
    \/ \E c \in Conns, ok \in BOOLEAN : SendInputWrite(c, ok)
    \/ \E c \in Conns, p \in Paths, o \in WatchOutcomes :
           WatchFiles(c, p, o) /\ Objects' <= MaxObjects
    \/ \E c \in Conns, p \in Paths : UnwatchFiles(c, p)
    \/ \E c \in Conns, a \in MonitorArgs, n \in Intervals :
           StartPortMonitoring(c, a[1], a[2], n) /\ Objects' <= MaxObjects
    \/ \E c \in Conns, a \in MonitorArgs : StopPortMonitoring(c, a[1], a[2])
    \/ \E c \in Conns : FsCleanupConnection(c)
    \/ \E c \in Conns : NetCleanupConnection(c)
    \/ \E c \in Conns : ShellCleanupConnection(c)

\* The three registries under every interleaving of the handlers of all connections,
\* with at most MaxObjects sessions, watchers and monitors created in a run.  The
\* goroutines and the child processes never write a registry map and do not run here.
RegistrySpec == QuietInit /\ [][GateNext(ServedQueries) \/ HandlerNext]_vars

\* the rest of the disconnect handler after the watch module's cleanup
AfterFsCleanup ==
    \/ \E c \in Conns : NetCleanupConnection(c)
    \/ \E c \in Conns : ShellCleanupConnection(c)

\* the gate, the watch module and the disconnect handler, events recorded
FsSpec == Init /\ [][GateNext(ServedQueries) \/ FsNext \/ AfterFsCleanup]_vars

\* the monitor module serving the connections the gate let in, events recorded
NetSpec ==
    Init /\ [][(\E c \in Conns, q \in ServedQueries : OnConnect(c, q)) \/ NetServeNext]_vars

\* the sampling of the polling loops on a larger socket table: monitors of tcp and
\* of both protocols on every address
MaxSampledPorts == 2
SampledPorts == 1..MaxSampledPorts
SampleArgs == {<<Tcp, AnyIface>>, <<Both, AnyIface>>}

SampleNext ==
    \/ \E c \in Conns, a \in SampleArgs : StartPortMonitoring(c, a[1], a[2], DefaultInterval)
    \/ \E c \in Conns, a \in SampleArgs : StopPortMonitoring(c, a[1], a[2])
    \/ \E m \in MonitorIds : MonitorStopSeen(m)
    \/ \E m \in MonitorIds : MonitorTick(m)
    \/ \E m \in MonitorIds : MonitorSample(m)
    \/ \E p \in {"tcp", "udp"}, port \in SampledPorts : TableChange(p, port)

SampleSpec == Init /\ [][(\E c \in Conns : OnConnect(c, 1)) \/ SampleNext]_vars

\* Scheduling: the ticker of a polling loop keeps firing, and a loop that waits in
\* its select or has taken a tick goes on.
NetFairness ==
    \A m \in MonitorIds :
        /\ WF_vars(MonitorStopSeen(m))
        /\ WF_vars(MonitorTick(m))
        /\ WF_vars(MonitorSample(m))

\* the monitor module serving the connections the gate let in, under fair scheduling
FairNetSpec ==
    /\ QuietInit
    /\ [][(\E c \in Conns, q \in ServedQueries : OnConnect(c, q)) \/ NetServeNext]_vars
    /\ NetFairness

\* the handlers that create a session, a watch or a monitor, and the disconnect handler
CreateNext ==
    \/ \E c \in Conns, started \in BOOLEAN : SpawnInteractiveShell(c, started) /\ Objects' <= MaxObjects
    \/ \E c \in Conns : SpawnEmit(c)
    \/ \E c \in Conns, p \in Paths, o \in WatchOutcomes :
           WatchFiles(c, p, o) /\ Objects' <= MaxObjects
    \/ \E c \in Conns, a \in MonitorArgs, n \in Intervals :
           StartPortMonitoring(c, a[1], a[2], n) /\ Objects' <= MaxObjects
    \/ \E c \in Conns : FsCleanupConnection(c)
    \/ \E c \in Conns : NetCleanupConnection(c)
    \/ \E c \in Conns : ShellCleanupConnection(c)

\* the gate under every handshake of QueryList, followed by the creating handlers
GateSpec == QuietInit /\ [][GateNext(Queries) \/ CreateNext]_vars

\* what calls PortMonitor.Stop: start, stop and the disconnect handler, events and
\* system calls recorded; the polling loops never close a stop channel and do not
\* run here
StopNext ==
    \/ \E c \in Conns, a \in MonitorArgs :
           StartPortMonitoring(c, a[1], a[2], DefaultInterval)
    \/ \E c \in Conns, a \in MonitorArgs : StopPortMonitoring(c, a[1], a[2])
    \/ \E c \in Conns : FsCleanupConnection(c)
    \/ \E c \in Conns : NetCleanupConnection(c)
    \/ \E c \in Conns : ShellCleanupConnection(c)

StopSpec == Init /\ [][GateNext({1}) \/ StopNext]_vars

\* the mutex operations of the functions, under every interleaving of the goroutines
LockNext ==
    \E a \in Activities :
        \/ \E routine \in Routines : Begin(a, routine)
        \/ Lock(a)
        \/ LockAcquire(a)
        \/ LockReturn(a)
        \/ Unlock(a)
        \/ RLock(a)
        \/ RLockReturn(a)
        \/ RUnlock(a)

\* a goroutine that can run does run; a mutex freed again and again is not kept from
\* a queued writer for ever (sync.Mutex hands over to a starving waiter)
LockFairness ==
    \A a \in Activities :
        /\ WF_vars(Lock(a))
        /\ SF_vars(LockAcquire(a))
        /\ WF_vars(LockReturn(a))
        /\ WF_vars(Unlock(a))
        /\ WF_vars(RLock(a))
        /\ WF_vars(RLockReturn(a))
        /\ WF_vars(RUnlock(a))

LockSpec == Init /\ [][LockNext]_vars /\ LockFairness


\* ------------------------------------------ helper functions on their own
\* a call of helper `fn` that has not returned yet
Call(fn, args) == [fn |-> fn, args |-> args, done |-> FALSE, result |-> <<>>]

\* the helper returns `result`; nothing else of the program moves
Return(result) ==
    /\ eval' = [eval EXCEPT !.done = TRUE, !.result = result]
    /\ emitted' = <<>>
    /\ sys' = <<>>
    /\ UNCHANGED <<connVars, shellVars, fsVars, netVars, lockVars, observe>>

\* the ports the two maps handed to diffPorts are drawn from
SamplePorts == {80, 443, 8080}
PortMaps == {PortMap(S) : S \in SUBSET SamplePorts}

\* diffPorts(old, current) for every pair of maps that getListeningPorts can build
DiffCalls == {Call("diffPorts", <<old, current>>) : old \in PortMaps, current \in PortMaps}

EvalDiffPorts ==
    /\ eval.fn = "diffPorts"
    /\ ~eval.done
    /\ Return(diffPorts(eval.args[1], eval.args[2]))

DiffInit == Start /\ observe = TRUE /\ eval \in DiffCalls

DiffSpec == DiffInit /\ [][EvalDiffPorts]_vars

\* Strings of the socket tables are sequences of one-character strings.
DecimalChars == <<"0", "1", "2", "3", "4", "5", "6", "7", "8", "9">>
LowerChars == <<"a", "b", "c", "d", "e", "f">>
UpperChars == <<"A", "B", "C", "D", "E", "F">>

PlaceOf(chars, ch) == CHOOSE i \in 1..Len(chars) : chars[i] = ch

\* the value strconv gives a character as a digit; NoDigit for a character that is
\* a digit in no base up to 16
NoDigit == 16
DigitValue(ch) ==
    IF ch \in SeqSet(DecimalChars) THEN PlaceOf(DecimalChars, ch) - 1
    ELSE IF ch \in SeqSet(LowerChars) THEN PlaceOf(LowerChars, ch) + 9
    ELSE IF ch \in SeqSet(UpperChars) THEN PlaceOf(UpperChars, ch) + 9
    ELSE NoDigit

\* the digit loop of strconv.ParseUint: value 0 on a character that is no digit of
\* the base, the largest value on overflow
RECURSIVE ParseDigits(_, _, _, _)
ParseDigits(s, base, max, n) ==
    IF s = <<>> THEN [val |-> n, err |-> "none"]
    ELSE LET d == DigitValue(Head(s))
         IN IF d >= base THEN [val |-> 0, err |-> "syntax"]
            ELSE IF n * base + d > max THEN [val |-> max, err |-> "range"]
            ELSE ParseDigits(Tail(s), base, max, n * base + d)

\* strconv.ParseUint(s, base, bitSize) for a base that is not 0
ParseUint(s, base, bitSize) ==
    IF s = <<>> THEN [val |-> 0, err |-> "syntax"]
    ELSE ParseDigits(s, base, 2^bitSize - 1, 0)

\* strconv.ParseInt(s, base, 32) for a base that is not 0: an optional sign, then
\* the digits; the magnitude may not exceed 2^31 - 1 (the one value -2^31 apart)
MaxInt32 == 2147483647
ParseInt32(s, base) ==
    IF s = <<>> THEN [val |-> 0, err |-> "syntax"]
    ELSE LET neg == Head(s) = "-"
             digits == IF Head(s) \in {"+", "-"} THEN Tail(s) ELSE s
             un == IF digits = <<>> THEN [val |-> 0, err |-> "syntax"]
                   ELSE ParseDigits(digits, base, MaxInt32, 0)
         IN IF un.err = "none" /\ neg THEN [val |-> 0 - un.val, err |-> "none"]
            ELSE IF un.err = "range" /\ neg THEN [val |-> 0 - MaxInt32 - 1, err |-> "range"]
            ELSE un

\* fmt.Sprintf("%d", n) for n >= 0
RECURSIVE FormatDecimal(_)
FormatDecimal(n) ==
    IF n < 10 THEN <<DecimalChars[n + 1]>>
    ELSE FormatDecimal(n \div 10) \o <<DecimalChars[(n % 10) + 1]>>

\* strings.Join(parts, sep)
RECURSIVE Join(_, _)
Join(parts, sep) ==
    IF parts = <<>> THEN <<>>
    ELSE IF Len(parts) = 1 THEN parts[1]
    ELSE parts[1] \o <<sep>> \o Join(Tail(parts), sep)

\* an address decoder that keeps the printed order of the bytes
ipBytes_Printed(hexIP) ==
    <<SubSeq(hexIP, 1, 2), SubSeq(hexIP, 3, 4), SubSeq(hexIP, 5, 6), SubSeq(hexIP, 7, 8)>>

\* parseHexIP: hexIP[6:8], hexIP[4:6], hexIP[2:4], hexIP[0:2]
ipBytes(hexIP) ==
    <<SubSeq(hexIP, 7, 8), SubSeq(hexIP, 5, 6), SubSeq(hexIP, 3, 4), SubSeq(hexIP, 1, 2)>>

\* parseHexIP: the error of ParseUint is dropped and its value is printed
parseHexIP(hexIP) ==
    IF Len(hexIP) # 8 THEN <<>>
    ELSE Join([i \in 1..4 |-> FormatDecimal(ParseUint(ipBytes(hexIP)[i], 16, 8).val)], ".")

\* parsePortsFile, lines 355-371, for the local_address field of one row and the
\* interface "any": the decoded address, and the port if the row adds one
LocalAddress(localAddress) ==
    LET ipPort == Split(localAddress, ":")
    IN IF Len(ipPort) # 2 THEN [added |-> FALSE, ip |-> <<>>, port |-> 0]
       ELSE LET port == ParseInt32(ipPort[2], 16)
            IN [added |-> port.err = "none", ip |-> parseHexIP(ipPort[1]),
                port |-> port.val]

\* the address fields decoded: every field of eight of these digits, and two fields
\* that are not eight characters long
IPDigits == {"0", "1", "7", "F"}
IPFields ==
    [1..8 -> IPDigits] \cup {<<>>, <<"0", "1", "0", "0", "0", "0", "7">>}

\* the rows decoded: two addresses with every port field of four of these digits, and
\* three fields that are no address:port pair or hold no hex port
PortDigits == {"0", "5", "A", "f"}
Loopback == <<"0", "1", "0", "0", "0", "0", "7", "F">>
RowAddresses == {Loopback, <<"0", "1", "0", "1", "A", "8", "C", "0">>}
RowFields ==
    {a \o <<":">> \o port : a \in RowAddresses, port \in [1..4 -> PortDigits]}
    \cup {Loopback, Loopback \o <<":">>, Loopback \o <<":", "0", "0", "g", "0">>,
          Loopback \o <<":", "0", "0", "5", "0", ":", "0">>}

DecodeCalls ==
    {Call("parseHexIP", <<hexIP>>) : hexIP \in IPFields}
    \cup {Call("LocalAddress", <<field>>) : field \in RowFields}

EvalParseHexIP ==
    /\ eval.fn = "parseHexIP"
    /\ ~eval.done
    /\ Return(parseHexIP(eval.args[1]))

EvalLocalAddress ==
    /\ eval.fn = "LocalAddress"
    /\ ~eval.done
    /\ Return(LocalAddress(eval.args[1]))

DecodeInit == Start /\ observe = TRUE /\ eval \in DecodeCalls

DecodeSpec == DecodeInit /\ [][EvalParseHexIP \/ EvalLocalAddress]_vars

\* A socket-table file is the sequence of its lines, a line the sequence of its
\* fields (strings.Fields of the line), a field a sequence of characters.  The
\* interface argument is a sequence of characters here.
AnyText == <<"a", "n", "y">>

\* a reader that lets every row pass
PassesFilter_All(iface, ip) == TRUE

\* parsePortsFile, line 363, negated: the row is not skipped by the interface filter
PassesFilter(iface, ip) == ~(iface # AnyText /\ iface # ip)

\* parsePortsFile, lines 348-371: the scanner loop over the lines after the header
RECURSIVE ScanRows(_, _, _)
ScanRows(lines, iface, ports) ==
    IF lines = <<>> THEN ports
    ELSE LET fields == Head(lines)
             row == IF Len(fields) < 2 THEN [added |-> FALSE, ip |-> <<>>, port |-> 0]
                    ELSE LocalAddress(fields[2])
             ipPort == IF Len(fields) < 2 THEN <<>> ELSE Split(fields[2], ":")
         IN IF Len(fields) >= 2 /\ Len(ipPort) = 2 /\ PassesFilter(iface, row.ip) /\ row.added
            THEN ScanRows(Tail(lines), iface,
                          [port \in DOMAIN ports \cup {row.port} |-> TRUE])
            ELSE ScanRows(Tail(lines), iface, ports)

\* parsePortsFile on the lines of a file that could be opened: the first Scan
\* drops a line, the loop reads the rest
parsePortsLines(lines, iface) ==
    ScanRows(IF lines = <<>> THEN <<>> ELSE Tail(lines), iface, PortMap({}))

\* the lines the files are made of
Slot == <<"0", ":">>
Row(localAddress) == <<Slot, localAddress, <<"0", "0", "0", "0", "0", "0", "0", "0", ":", "0", "0", "0", "0">> >>
HeaderLine == << <<"s", "l">>, <<"l", "o", "c", "a", "l">> >>
Wildcard == <<"0", "0", "0", "0", "0", "0", "0", "0">>
Port80 == <<"0", "0", "5", "0">>
Port443 == <<"0", "1", "B", "B">>
GoodRows ==
    {Row(Loopback \o <<":">> \o Port80), Row(Loopback \o <<":">> \o Port443),
     Row(Wildcard \o <<":">> \o Port80)}
\* one field only; no ":"; two ":"; an address that is no hex; a port that is no
\* hex; an address of six digits
BadRows ==
    {<<Slot>>,
     Row(Loopback),
     Row(Loopback \o <<":">> \o Port443 \o <<":", "0">>),
     Row(<<"0", "1", "0", "0", "0", "0", "7", "G">> \o <<":">> \o Port443),
     Row(Loopback \o <<":", "0", "1", "G", "B">>),
     Row(<<"0", "0", "0", "0", "7", "F">> \o <<":">> \o Port443)}

\* rows whose port field is more than a 16-bit hex number: five digits (65536), and
\* a sign in front of the digits
WideRows ==
    {Row(Loopback \o <<":", "1", "0", "0", "0", "0">>),
     Row(Loopback \o <<":", "-", "0", "0", "5", "0">>)}

MaxRows == 2
RowSeqs == UNION {[1..n -> GoodRows \cup BadRows \cup WideRows] : n \in 0..MaxRows}
TableFiles ==
    {<<>>} \cup {<<first>> \o rows : first \in {HeaderLine, Row(Loopback \o <<":">> \o Port443)},
                                      rows \in RowSeqs}

\* the interface arguments: any, 127.0.0.1, 0.0.0.0, 127.0.0.01, 0.0.0.1 and the
\* empty string
Filters ==
    {AnyText,
     <<"1", "2", "7", ".", "0", ".", "0", ".", "1">>,
     <<"0", ".", "0", ".", "0", ".", "0">>,
     <<"1", "2", "7", ".", "0", ".", "0", ".", "0", "1">>,
     <<"0", ".", "0", ".", "0", ".", "1">>,
     <<>>}

ReadCalls == {Call("parsePortsFile", <<lines, iface>>) : lines \in TableFiles, iface \in Filters}

EvalParsePortsFile ==
    /\ eval.fn = "parsePortsFile"
    /\ ~eval.done
    /\ Return(parsePortsLines(eval.args[1], eval.args[2]))

ReadInit == Start /\ observe = TRUE /\ eval \in ReadCalls

ReadSpec == ReadInit /\ [][EvalParsePortsFile]_vars

\* ------------------------------------------------------------------ claims
\* the registry entries of a connection
ShellEntries(c) == {s \in sessions : sessOwner[s] = c} \cup SeqSet(ClientSessions(c))
WatchEntries(c) ==
    {k \in DOMAIN watchers : k[1] = c}
    \cup (IF c \in DOMAIN fsClients THEN {<<c, p>> : p \in fsClients[c]} ELSE {})
MonitorEntries(c) == {k \in DOMAIN monitors : k[1] = c}

\* C1: once the disconnect handler of a connection has run (its three cleanups), no
\* session of the connection is in the session map or in the per-client index, no
\* watch is keyed by it in either map of the watch module, and no monitor is keyed by it.
C1_NoEntriesAfterDisconnect ==
    \A c \in Conns :
        conn[c] = "closed" =>
            /\ ShellEntries(c) = {}
            /\ WatchEntries(c) = {}
            /\ MonitorEntries(c) = {}

\* a connection that owned a session, a started watch and a monitor has disconnected
C1_Witness ==
    \E c \in Conns :
        /\ conn[c] = "closed"
        /\ \E s \in SessionIds : sessOwner[s] = c
        /\ \E w \in WatcherIds : wKey[w][1] = c /\ wLoop[w] = "run"
        /\ \E m \in MonitorIds : mKey[m].conn = c

\* connection b addresses session s, which another connection owns
Foreign(b, s) == sessOwner[s] # NoConn /\ sessOwner[s] # b

KillStep(c, s) == \E ends \in BOOLEAN : KillSession(c, s, ends)

\* C3: shell-input or shell-kill by a connection that does not own the session it
\* names writes nothing to the terminal, signals no process, leaves the liveness
\* flags, the session map and the index as they were, and emits one shell:error to
\* the requester only.
C3_NoCrossMutation ==
    [][\A b \in Conns, s \in SessionIds :
          (Foreign(b, s) /\ (KillStep(b, s) \/ SendInputLookup(b, s))) =>
              /\ sys' = <<>>
              /\ UNCHANGED <<sessions, clients, sessActive, sessOwner, proc, pty, reader>>
              /\ handler'[b] = Idle
              /\ Len(emitted') = 1
              /\ emitted'[1].to = b
              /\ emitted'[1].name = "shell:error"]_vars

\* a connection has just been denied access to a live, registered session of another
C3_Witness ==
    \E b \in Conns, s \in sessions :
        /\ Foreign(b, s)
        /\ sessActive[s]
        /\ proc[s] = "running"
        /\ emitted = <<ShellEv(b, "shell:error", "Access denied", s, 0)>>

\* C4: the error event a connection gets for a session of another connection is the
\* one it gets for a session id that does not exist (same name, same payload).
C4_DeniedLooksLikeNotFound ==
    [][\A b \in Conns, s \in sessions :
          (Foreign(b, s) /\ (KillStep(b, s) \/ SendInputLookup(b, s))) =>
              emitted' = <<ShellEv(b, "shell:error", "Session not found", s, 0)>>]_vars

\* C7: sendInput by the owner, handled after the session's process has exited, yields
\* the "Session is not active" error: the lookup ends with no other error and hands the
\* request to the liveness check, and the flag that check reads is false by then (it
\* never turns true again), so that no write to the terminal follows.
C7_InactiveAfterExit ==
    [][\A c \in Conns, s \in SessionIds :
          (sessOwner[s] = c /\ proc[s] = "exited" /\ SendInputLookup(c, s)) =>
              /\ handler'[c] = [op |-> "input_check", sid |-> s]
              /\ ~sessActive[s]]_vars

\* C8: kill by the owner on a session whose process has already exited emits
\* shell:killed and no shell:error, also when an earlier kill removed the session.
C8_KillAfterExitSucceeds ==
    [][\A c \in Conns, s \in SessionIds :
          (sessOwner[s] = c /\ proc[s] = "exited" /\ KillStep(c, s)) =>
              emitted' = <<ShellEv(c, "shell:killed", "", s, 0)>>]_vars

\* C10: kill by the owner of a registered session leaves the session not live, out of
\* the session map and out of the owner's index, emits exactly one shell:killed to the
\* requester, and keeps every other session registered and indexed.
C10_KillRemovesSession ==
    [][\A c \in Conns, s \in sessions :
          (sessOwner[s] = c /\ KillStep(c, s)) =>
              /\ ~sessActive'[s]
              /\ sessions' = sessions \ {s}
              /\ DOMAIN clients' = DOMAIN clients
              /\ \A x \in DOMAIN clients :
                     SeqSet(clients'[x]) = IF x = c THEN SeqSet(clients[x]) \ {s}
                                           ELSE SeqSet(clients[x])
              /\ emitted' = <<ShellEv(c, "shell:killed", "", s, 0)>>]_vars

\* the owner has just killed one of its two registered sessions
C10_Witness ==
    \E c \in Conns, s \in SessionIds, t \in sessions :
        /\ emitted = <<ShellEv(c, "shell:killed", "", s, 0)>>
        /\ s # t
        /\ sessOwner[t] = c
        /\ t \in SeqSet(ClientSessions(c))
        /\ s \notin sessions

\* the parameters of a raw query, each split at its first "="
RECURSIVE IndexOf(_, _, _)
IndexOf(s, ch, i) ==
    IF i > Len(s) THEN 0 ELSE IF s[i] = ch THEN i ELSE IndexOf(s, ch, i + 1)

ParamsOf(rawQuery) ==
    LET fields == Split(rawQuery, "&")
    IN {LET f == fields[i]
            eq == IndexOf(f, "=", 1)
        IN IF eq = 0 THEN [name |-> f, value |-> <<>>]
           ELSE [name |-> SubSeq(f, 1, eq - 1), value |-> SubSeq(f, eq + 1, Len(f))] :
        i \in 1..Len(fields)}

\* the handshake carries the secret as the value of the parameter of that name
Presents(c, name) ==
    /\ query[c] # 0
    /\ [name |-> name, value |-> authToken] \in ParamsOf(QueryList[query[c]])

\* the connection has had a session, a watcher or a monitor
OwnsSomething(c) ==
    \/ \E s \in SessionIds : sessOwner[s] = c
    \/ \E w \in WatcherIds : wKey[w][1] = c
    \/ \E m \in MonitorIds : mKey[m].conn = c
    \/ c \in DOMAIN clients \cup DOMAIN fsClients

\* C5: a connection whose handshake does not carry the secret as its credential (the
\* value of the auth parameter) is closed by the connect handler, and no session,
\* watch or monitor is ever created for it.
C5_GateBeforeSessions ==
    \A c \in Conns :
        (query[c] # 0 /\ ~Presents(c, <<"a","u","t","h">>)) =>
            /\ conn[c] = "rejected"
            /\ ~OwnsSomething(c)

\* a connection was turned away for a value that only starts with the secret, while
\* another connection was admitted and owns a session
C5_Witness ==
    \E c, d \in Conns :
        /\ query[c] = 5
        /\ conn[c] = "rejected"
        /\ conn[d] = "open"
        /\ \E s \in sessions : sessOwner[s] = d

\* the OS resources of the shell sessions, watches and monitors connection c created
Released(c) ==
    /\ \A s \in SessionIds : sessOwner[s] = c => proc[s] = "exited" /\ pty[s] = "closed"
    /\ \A w \in WatcherIds : wKey[w][1] = c => wCloses[w] > 0
    /\ \A m \in MonitorIds : mKey[m].conn = c => mLoop[m] \in {"none", "done"}

\* C2: after a connection has disconnected, every child process of its sessions ends,
\* every pseudo-terminal of them is closed, every watch handle of it is closed and
\* every polling loop of its monitors exits, eventually, under fair scheduling.
C2_EventuallyReleased ==
    \A c \in Conns : [](conn[c] = "closed" => <>Released(c))

\* C9: a spawned session whose process exits gets exactly one shell:exit event: never
\* a second one, none before the exit, and one carrying the exit code of the process
\* after the exit, eventually, under fair scheduling.
C9_ExactlyOneExit ==
    /\ [](\A s \in SessionIds : Len(exitEvents[s]) <= 1)
    /\ [](\A s \in SessionIds : exitEvents[s] # <<>> => proc[s] = "exited")
    /\ \A s \in SessionIds : (proc[s] = "exited") ~> (exitEvents[s] = <<exitCode[s]>>)

\* C6: a connection that presents the configured token as the query parameter named
\* token, as the README instructs, is not closed by the connect handler.
C6_TokenParameterAdmitted ==
    \A c \in Conns : Presents(c, <<"t","o","k","e","n">>) => conn[c] # "rejected"

\* C11: when pty.Start fails in spawn, one shell:error goes to the requester, the
\* session map and the per-client index stay as they were, no session object, process,
\* terminal or reader comes to exist, and no shell:spawned is emitted or left pending.
C11_FailedSpawnCreatesNothing ==
    [][\A c \in Conns :
          SpawnInteractiveShell(c, FALSE) =>
              /\ emitted' = <<ShellEv(c, "shell:error", "Failed to start shell", NoSid, 0)>>
              /\ UNCHANGED <<sessions, clients, sessOwner, sessActive, proc, pty, reader>>
              /\ handler'[c] = Idle
              /\ shellMu' = NoConn]_vars

\* a spawn of a connection that already has a session has just failed
C11_Witness ==
    \E c \in Conns :
        /\ emitted = <<ShellEv(c, "shell:error", "Failed to start shell", NoSid, 0)>>
        /\ Len(ClientSessions(c)) = 1
        /\ FreshSids # {}
        /\ handler[c] = Idle

\* the watchers of (c, path) that deliver notifications: forwarding, not closed
ActiveWatchers(c, path) ==
    {w \in WatcherIds : wKey[w] = <<c, path>> /\ wLoop[w] = "run" /\ wCloses[w] = 0}

\* C12: a connection never has two active watches on one path; a watch request for a
\* path the connection already watches gets "Already watching this path" and creates
\* no watcher; a watch request that succeeds registers a watcher of its own for the
\* requester and leaves the watches of every other connection, same path included, alone.
C12_OneWatchPerConnectionAndPath ==
    /\ [](\A c \in Conns, p \in Paths : Cardinality(ActiveWatchers(c, p)) <= 1)
    /\ [][\A c \in Conns, p \in Paths, o \in WatchOutcomes :
            (ActiveWatchers(c, p) # {} /\ WatchFiles(c, p, o)) =>
                /\ emitted' = <<FsEv(c, "fs:error", "Already watching this path", p)>>
                /\ UNCHANGED <<watchers, wKey, wCloses, wLoop>>]_vars
    /\ [][\A c \in Conns, p \in Paths :
            (ActiveWatchers(c, p) = {} /\ WatchFiles(c, p, "ok")) =>
                /\ emitted' = <<FsEv(c, "fs:watching", "Started watching directory", p)>>
                /\ Cardinality(ActiveWatchers(c, p)') = 1
                /\ \A d \in Conns \ {c} : ActiveWatchers(d, p)' = ActiveWatchers(d, p)]_vars

\* a connection has just been refused a second watch on a path that another
\* connection watches too
C12_Witness ==
    \E c, d \in Conns, p \in Paths :
        /\ c # d
        /\ emitted = <<FsEv(c, "fs:error", "Already watching this path", p)>>
        /\ Cardinality(ActiveWatchers(c, p)) = 1
        /\ Cardinality(ActiveWatchers(d, p)) = 1
        /\ watchers[<<c, p>>] # watchers[<<d, p>>]

\* C13: when the recursive walk of a watch request fails, the watcher made for it is
\* closed, neither registry map gets an entry for (connection, path), no forwarding
\* goroutine is started, one fs:error is emitted, and the path does not count as
\* watched for a later request of the connection.
C13_FailedWalkLeavesNothing ==
    [][\A c \in Conns, p \in Paths :
          (~AlreadyWatching(c, p) /\ WatchFiles(c, p, "walk_fail")) =>
              /\ emitted' = <<FsEv(c, "fs:error", "Failed to watch path", p)>>
              /\ wCloses'[NewWatcher] = 1
              /\ sys' = <<SysCall("watcher.Close", NewWatcher, TRUE)>>
              /\ UNCHANGED <<watchers, wLoop>>
              /\ p \notin fsClients'[c]
              /\ ~AlreadyWatching(c, p)'
              /\ ActiveWatchers(c, p)' = {}]_vars

\* after a failed walk the connection asked again for the path and now watches it
C13_Witness ==
    \E c \in Conns, p \in Paths, w \in WatcherIds :
        /\ wKey[w] = <<c, p>>
        /\ wLoop[w] = "none"
        /\ wCloses[w] = 1
        /\ emitted = <<FsEv(c, "fs:watching", "Started watching directory", p)>>
        /\ <<c, p>> \in DOMAIN watchers
        /\ watchers[<<c, p>>] # w

\* the monitor objects that were created and are no longer in the registry
Unregistered(m) ==
    /\ mKey[m] # NoMonitorKey
    /\ \A k \in DOMAIN monitors : monitors[k] # m

\* C14: for tcp, udp and both, monitor-stop by the connection that started a monitor
\* under the same key leaves no monitor registered under the key, the polling loop of
\* the monitor ends, eventually, and once it has ended it stays ended and samples and
\* emits nothing more.
C14_StopEndsMonitor ==
    /\ [][\A c \in Conns, a \in MonitorArgs :
            (a[1] \in Protocols /\ MonitorID(c, a[1], a[2]) \in DOMAIN monitors
               /\ StopPortMonitoring(c, a[1], a[2])) =>
                MonitorID(c, a[1], a[2]) \notin DOMAIN monitors']_vars
    /\ \A m \in MonitorIds : Unregistered(m) ~> (mLoop[m] = "done")
    /\ [][\A m \in MonitorIds :
            mLoop[m] = "done" => (mLoop'[m] = "done" /\ ~MonitorSample(m))]_vars

\* a monitor of both protocols was stopped by its connection, which is still served,
\* and its loop has ended
C14_Witness ==
    \E m \in MonitorIds :
        /\ Unregistered(m)
        /\ mLoop[m] = "done"
        /\ mKey[m].protocol = Both
        /\ conn[mKey[m].conn] = "open"
        /\ mStopCloses[m] = 1

\* monitor o was created before monitor m for the same connection, protocol and interface
Replaced(o, m) == o < m /\ mKey[m] # NoMonitorKey /\ mKey[o] = mKey[m]

\* C15: a key never has two polling loops at work: when the loop of a monitor takes a
\* sample, the loop of every monitor it replaced under the key has ended, or waits in
\* its select as a stopped monitor, from where it can only return.
C15_OneLoopPerKey ==
    [][\A o, m \in MonitorIds :
          (Replaced(o, m) /\ MonitorSample(m)) => mLoop[o] # "tick"]_vars

\* C16: monitor-start with a protocol other than tcp, udp and both emits one net:error
\* and changes nothing: the registry and every monitor object stay as they were, no
\* running monitor is stopped and no loop is started.
C16_InvalidProtocolChangesNothing ==
    [][\A c \in Conns, a \in MonitorArgs, n \in Intervals :
          (a[1] \notin Protocols /\ StartPortMonitoring(c, a[1], a[2], n)) =>
              /\ Len(emitted') = 1
              /\ emitted'[1].to = c
              /\ emitted'[1].name = "net:error"
              /\ sys' = <<>>
              /\ UNCHANGED <<monitors, mKey, mRunning, mStopCloses, mLoop, mPrev>>]_vars

\* the elements of a sequence are pairwise different
NoDuplicates(seq) == \A i, j \in 1..Len(seq) : seq[i] = seq[j] => i = j

\* C17: for every pair of port sets, diffPorts returns as opened exactly the ports
\* of current that previous does not hold and as closed exactly the ports of
\* previous that current does not hold; no port is listed twice, no port is in
\* both lists, and both lists are empty exactly when the two sets are equal.
C17_DiffIsSetDifference ==
    (eval.fn = "diffPorts" /\ eval.done) =>
        LET previous == DOMAIN eval.args[1]
            current == DOMAIN eval.args[2]
            opened == eval.result.opened
            closed == eval.result.closed
        IN /\ SeqSet(opened) = current \ previous
           /\ SeqSet(closed) = previous \ current
           /\ NoDuplicates(opened)
           /\ NoDuplicates(closed)
           /\ SeqSet(opened) \cap SeqSet(closed) = {}
           /\ (opened = <<>> /\ closed = <<>>) <=> (previous = current)

\* diffPorts has returned for previous = {80, 443}, current = {443, 8080}
C17_Witness ==
    /\ eval.fn = "diffPorts"
    /\ eval.done
    /\ eval.args = <<PortMap({80, 443}), PortMap({443, 8080})>>
    /\ eval.result = [opened |-> <<8080>>, closed |-> <<80>>]

\* what a tick of the monitor's loop reads from the socket tables
Sample(m) == ListeningPorts(ProtocolList(mKey[m].protocol), mKey[m].iface)

\* the ports of the entries of a batch that carry the given status, in order
RECURSIVE PortsWithStatus(_, _)
PortsWithStatus(changes, status) ==
    IF changes = <<>> THEN <<>>
    ELSE (IF Head(changes).status = status THEN <<Head(changes).port>> ELSE <<>>)
         \o PortsWithStatus(Tail(changes), status)

\* C18: a tick of a monitor emits exactly one port-changes event, to the monitor's
\* connection, if the sample differs from the stored previous sample, and no event
\* if they are equal; the event holds exactly one entry for every port that opened
\* and one for every port that closed, and every entry carries the event's timestamp.
C18_OneBatchPerChangedTick ==
    [][\A m \in MonitorIds :
          MonitorSample(m) =>
              LET previous == DOMAIN mPrev[m]
                  current == DOMAIN Sample(m)
              IN IF current = previous
                 THEN emitted' = <<>>
                 ELSE /\ Len(emitted') = 1
                      /\ emitted'[1].to = mKey[m].conn
                      /\ emitted'[1].name = "net:port:changes"
                      /\ LET changes == emitted'[1].changes
                             opened == PortsWithStatus(changes, "opened")
                             closed == PortsWithStatus(changes, "closed")
                         IN /\ Len(changes) = Len(opened) + Len(closed)
                            /\ NoDuplicates(opened) /\ SeqSet(opened) = current \ previous
                            /\ NoDuplicates(closed) /\ SeqSet(closed) = previous \ current
                            /\ \A i \in 1..Len(changes) :
                                   /\ changes[i].timestamp = emitted'[1].timestamp
                                   /\ changes[i].protocol = mKey[m].protocol
                                   /\ changes[i].iface = mKey[m].iface]_vars

\* a tick has just reported one port as opened and another as closed in one batch
C18_Witness ==
    /\ Len(emitted) = 1
    /\ emitted[1].name = "net:port:changes"
    /\ PortsWithStatus(emitted[1].changes, "opened") # <<>>
    /\ PortsWithStatus(emitted[1].changes, "closed") # <<>>
    /\ \E m \in MonitorIds : mLoop[m] = "select" /\ mRunning[m]

\* C19: a completed tick stores its sample as the monitor's previous sample,
\* whether or not it emitted an event; from then on, as long as the socket tables
\* stay the same, the stored sample stays the sample and a tick of the monitor
\* emits nothing, so a change is reported once.
C19_PreviousIsLastSample ==
    /\ [][\A m \in MonitorIds : MonitorSample(m) => mPrev'[m] = Sample(m)]_vars
    /\ [][\A m \in MonitorIds :
              (mLoop[m] \in {"select", "tick"} /\ mPrev[m] = Sample(m) /\ table' = table) =>
                  /\ mPrev'[m] = Sample(m)
                  /\ MonitorSample(m) => emitted' = <<>>]_vars

\* the only monitor created so far has just reported a change and stored the sample
C19_Witness ==
    \E m \in MonitorIds :
        /\ \A o \in MonitorIds \ {m} : mKey[o] = NoMonitorKey
        /\ mLoop[m] = "select"
        /\ Len(emitted) = 1
        /\ emitted[1].name = "net:port:changes"
        /\ mPrev[m] = Sample(m)
        /\ DOMAIN mPrev[m] # {}

\* the number a string of decimal digits stands for
RECURSIVE DecimalValue(_)
DecimalValue(s) ==
    IF s = <<>> THEN 0
    ELSE 10 * DecimalValue(SubSeq(s, 1, Len(s) - 1)) + (PlaceOf(DecimalChars, s[Len(s)]) - 1)

\* the number a string of hex digits stands for, most significant digit first
RECURSIVE HexValue(_)
HexValue(s) ==
    IF s = <<>> THEN 0
    ELSE 16 * HexValue(SubSeq(s, 1, Len(s) - 1)) + DigitValue(s[Len(s)])

IsHex(s) == \A i \in 1..Len(s) : DigitValue(s[i]) < 16

\* `ip` is the dotted address whose i-th number is the byte printed at place 5 - i
\* of the 8-digit field `hexIP`
ReversedAddress(ip, hexIP) ==
    LET parts == Split(ip, ".")
    IN /\ Len(parts) = 4
       /\ \A i \in 1..4 :
              /\ parts[i] # <<>>
              /\ \A k \in 1..Len(parts[i]) : parts[i][k] \in SeqSet(DecimalChars)
              /\ Len(parts[i]) > 1 => parts[i][1] # "0"
              /\ DecimalValue(parts[i]) = HexValue(SubSeq(hexIP, 9 - 2 * i, 10 - 2 * i))

\* C20: every address field of eight hex digits decodes to the dotted address that
\* lists its four bytes in the reverse of their printed order, and the port field of
\* a row decodes as a hex number, most significant digit first; 0100007F:0050 is
\* address 127.0.0.1, port 80.
C20_AddressBytesReversed ==
    /\ (eval.fn = "parseHexIP" /\ eval.done /\ Len(eval.args[1]) = 8 /\ IsHex(eval.args[1])) =>
           ReversedAddress(eval.result, eval.args[1])
    /\ (eval.fn = "LocalAddress" /\ eval.done) =>
           LET ipPort == Split(eval.args[1], ":")
           IN (Len(ipPort) = 2 /\ Len(ipPort[1]) = 8 /\ IsHex(ipPort[1])
               /\ ipPort[2] # <<>> /\ IsHex(ipPort[2])) =>
                  /\ eval.result.added
                  /\ eval.result.port = HexValue(ipPort[2])
                  /\ ReversedAddress(eval.result.ip, ipPort[1])
    /\ (eval.done /\ eval.args = <<Loopback \o <<":", "0", "0", "5", "0">>>>) =>
           /\ eval.result.ip = <<"1", "2", "7", ".", "0", ".", "0", ".", "1">>
           /\ eval.result.port = 80

\* the row field 0100007F:0050 has been decoded to 127.0.0.1 and port 80
C20_Witness ==
    /\ eval.fn = "LocalAddress"
    /\ eval.done
    /\ eval.args = <<Loopback \o <<":", "0", "0", "5", "0">>>>
    /\ eval.result = [added |-> TRUE, ip |-> <<"1", "2", "7", ".", "0", ".", "0", ".", "1">>,
                      port |-> 80]

\* the local_address field of a row, split at ":" (no parts for a row of one field)
AddressParts(fields) == IF Len(fields) < 2 THEN <<>> ELSE Split(fields[2], ":")

\* a row the kernel can print: at least two fields, the second one an address of
\* eight hex digits, a ":" and a port of hex digits
Parseable(fields) ==
    LET ipPort == AddressParts(fields)
    IN /\ Len(ipPort) = 2
       /\ Len(ipPort[1]) = 8 /\ IsHex(ipPort[1])
       /\ ipPort[2] # <<>> /\ IsHex(ipPort[2])

\* a parseable row passes the filter: "any", or exactly the row's dotted address
Selected(fields, iface) == iface = AnyText \/ ReversedAddress(iface, AddressParts(fields)[1])

\* the ports of the parseable rows after the first line that the filter selects
SelectedPorts(lines, iface) ==
    {HexValue(AddressParts(lines[i])[2]) :
        i \in {k \in 2..Len(lines) : Parseable(lines[k]) /\ Selected(lines[k], iface)}}

\* C21: for a file of parseable rows, the reader returns exactly the ports of the
\* rows after the first line that pass the filter: every row under "any", else the
\* rows whose decoded address is the filter string; each port once.
C21_ReaderReturnsSelectedPorts ==
    (eval.fn = "parsePortsFile" /\ eval.done
     /\ \A i \in 2..Len(eval.args[1]) : Parseable(eval.args[1][i])) =>
        /\ DOMAIN eval.result = SelectedPorts(eval.args[1], eval.args[2])
        /\ \A port \in DOMAIN eval.result : eval.result[port]

\* a file whose first line is a row of port 443, followed by port 80 on loopback
\* and port 80 on the wildcard address, read with the filter 127.0.0.1: only 80
C21_Witness ==
    /\ eval.fn = "parsePortsFile"
    /\ eval.done
    /\ eval.args = << <<Row(Loopback \o <<":">> \o Port443), Row(Loopback \o <<":">> \o Port80),
                         Row(Wildcard \o <<":">> \o Port80)>>,
                      <<"1", "2", "7", ".", "0", ".", "0", ".", "1">> >>
    /\ eval.result = PortMap({80})

\* C22: a row that cannot be parsed adds no port under any filter, and the rows
\* after it are still read: the reader returns the ports of the parseable rows
\* that pass the filter, whatever other rows the file holds.
C22_UnparseableRowsSkipped ==
    (eval.fn = "parsePortsFile" /\ eval.done) =>
        DOMAIN eval.result = SelectedPorts(eval.args[1], eval.args[2])

\* C23: every entry of every port-changes event carries the protocol tcp or udp,
\* whatever valid protocol the monitor was started with.
C23_EntryProtocolIsTcpOrUdp ==
    \A i \in 1..Len(emitted) :
        emitted[i].name = "net:port:changes" =>
            \A k \in 1..Len(emitted[i].changes) :
                emitted[i].changes[k].protocol \in {Tcp, Udp}

\* no Close is made on a pseudo-terminal that was closed before
PtyClosedAtMostOnce == \A s \in SessionIds : ptyCloses[s] <= 1

\* C24: the pseudo-terminal of a session is closed at most once, whatever the
\* order of process exit, kill and disconnect cleanup, and once the session's
\* process has exited the pseudo-terminal gets closed.
C24_PtyClosedExactlyOnce ==
    /\ []PtyClosedAtMostOnce
    /\ \A s \in SessionIds : (proc[s] = "exited") ~> (ptyCloses[s] = 1)

\* a step in which KillSession or the disconnect cleanup assigns false to the
\* liveness flag of session s
FlagClearedByRequest(s) ==
    \/ \E c \in Conns, ends \in BOOLEAN :
           KillSession(c, s, ends) /\ s \in sessions /\ sessOwner[s] = c
    \/ \E c \in Conns :
           ShellCleanupConnection(c) /\ s \in sessions /\ s \in SeqSet(ClientSessions(c))

\* C25: the liveness flag of a session is assigned false once: a session whose
\* flag is false is not assigned false again, neither by its reader nor by a kill or
\* a cleanup, and its flag never becomes true again.
C25_FlagClearedOnce ==
    [][\A s \in SessionIds :
          (sessOwner[s] # NoConn /\ ~sessActive[s]) =>
              /\ ~sessActive'[s]
              /\ ~ReaderCleanup(s)
              /\ ~FlagClearedByRequest(s)]_vars

\* C26: every session that is in the session registry has a pseudo-terminal that
\* has not been closed.
C26_RegisteredSessionHasOpenPty ==
    \A s \in sessions : ptyCloses[s] = 0 /\ pty[s] # "closed"

\* C27: the stop channel of a port monitor is closed at most once, whatever the
\* order of starts that replace it, stops and disconnect cleanups: no monitor has
\* been closed twice and no step closes a channel that was closed before.
C27_StopClosedAtMostOnce ==
    /\ \A m \in MonitorIds : mStopCloses[m] <= 1
    /\ \A i \in 1..Len(sys) : sys[i].call = "close(stop)" => sys[i].ok

\* a stop request has just called Stop on a registered monitor that had been
\* stopped before: the monitor-stopped event is emitted and nothing is closed
C27_Witness ==
    /\ Len(emitted) = 1
    /\ emitted[1].name = "net:monitor:stopped"
    /\ sys = <<>>
    /\ \E m \in MonitorIds :
           /\ mStopCloses[m] = 1
           /\ mKey[m].conn = emitted[1].to
           /\ MonitorID(mKey[m].conn, mKey[m].protocol, mKey[m].iface)
                  = MonitorID(emitted[1].to, emitted[1].protocol, emitted[1].iface)

\* C28: close is invoked on a watcher at most one time, whether by unwatch, by the
\* disconnect cleanup or by the exit of the watcher's forwarding goroutine, and a
\* watcher whose goroutine has exited has been closed exactly once.
C28_WatcherClosedOnce ==
    /\ \A w \in WatcherIds : wCloses[w] <= 1
    /\ \A w \in WatcherIds : wLoop[w] = "done" => wCloses[w] = 1

\* a step of the disconnect cleanup of connection a in one of the three modules
CleanupStep(a) ==
    \/ FsCleanupConnection(a)
    \/ NetCleanupConnection(a)
    \/ ShellCleanupConnection(a)

\* nothing that connection b owns changes in the step
OwnedUnchanged(b) ==
    /\ \A s \in SessionIds :
           sessOwner[s] = b =>
               /\ (s \in sessions') = (s \in sessions)
               /\ sessOwner'[s] = b
               /\ sessActive'[s] = sessActive[s]
               /\ proc'[s] = proc[s]
               /\ pty'[s] = pty[s]
    /\ (b \in DOMAIN clients') = (b \in DOMAIN clients)
    /\ b \in DOMAIN clients => clients'[b] = clients[b]
    /\ \A k \in DOMAIN watchers :
           k[1] = b => k \in DOMAIN watchers' /\ watchers'[k] = watchers[k]
    /\ (b \in DOMAIN fsClients') = (b \in DOMAIN fsClients)
    /\ b \in DOMAIN fsClients => fsClients'[b] = fsClients[b]
    /\ \A w \in WatcherIds : wKey[w][1] = b => wCloses'[w] = wCloses[w]
    /\ \A k \in DOMAIN monitors :
           k[1] = b => k \in DOMAIN monitors' /\ monitors'[k] = monitors[k]
    /\ \A m \in MonitorIds :
           mKey[m].conn = b => mRunning'[m] = mRunning[m] /\ mStopCloses'[m] = mStopCloses[m]

\* C29: a step of the disconnect cleanup of connection a changes nothing that
\* another connection b owns: b's sessions stay registered with the same flag and
\* process, b's watches stay registered and open, b's monitors stay registered and
\* running.
C29_CleanupLeavesOthersAlone ==
    [][\A a \in Conns : \A b \in Conns \ {a} : CleanupStep(a) => OwnedUnchanged(b)]_vars

\* connection a is gone and its session is out of the registry while connection b
\* still has a registered session and a registered watch
C29_Witness ==
    \E a \in Conns : \E b \in Conns \ {a} :
        /\ conn[a] = "closed"
        /\ \E s \in SessionIds : sessOwner[s] = a /\ s \notin sessions
        /\ \E t \in sessions : sessOwner[t] = b /\ sessActive[t]
        /\ \E k \in DOMAIN watchers : k[1] = b /\ wCloses[watchers[k]] = 0

\* Stop has returned for monitor m, whose loop was started
Stopped(m) == mLoop[m] # "none" /\ ~mRunning[m]

\* C30: once Stop has returned for a monitor, its loop enters no new tick body;
\* a tick that had passed the running check completes and leads back to the
\* select, so at most one more sample (and event) follows the Stop; and the loop
\* then returns.
C30_NoNewTickAfterStop ==
    /\ [][\A m \in MonitorIds :
              (Stopped(m) /\ mLoop[m] # "tick") => (mLoop'[m] # "tick" /\ ~MonitorSample(m))]_vars
    /\ [][\A m \in MonitorIds :
              (Stopped(m) /\ mLoop[m] = "tick") => mLoop'[m] \in {"tick", "select"}]_vars
    /\ \A m \in MonitorIds : Stopped(m) ~> (mLoop[m] = "done")

\* a monitor was stopped while its loop was inside a tick, past the running check
C30_Witness == \E m \in MonitorIds : Stopped(m) /\ mLoop[m] = "tick" /\ mStopCloses[m] = 1

\* C31: every port in a result of the socket-table reader is a 16-bit value, in
\* 0..65535, whatever the port fields of the rows hold.
C31_PortsAre16Bit ==
    (eval.fn = "parsePortsFile" /\ eval.done) =>
        \A port \in DOMAIN eval.result : port >= 0 /\ port <= 65535

\* C32: a failed write of sendInput to a session's pseudo-terminal emits an error
\* event and ends that session (its flag is false and it is out of the registry),
\* and an error reported by a watch's notification source emits an error event and
\* ends that watch (it is out of the watcher map).
C32_IoFailureEndsSession ==
    [][/\ \A c \in Conns, ok \in BOOLEAN :
              (SendInputWrite(c, ok) /\ ~(ok /\ pty[handler[c].sid] # "closed")) =>
                  /\ handler[c].sid \notin sessions'
                  /\ ~sessActive'[handler[c].sid]
       /\ \A w \in WatcherIds :
              WatcherError(w) => wKey[w] \notin DOMAIN watchers']_vars

\* session s was taken out of the registry by a kill request: it was created, it is
\* no longer registered, and its owner has not been through the disconnect cleanup
KilledByOwner(s) ==
    /\ sessOwner[s] # NoConn
    /\ s \notin sessions
    /\ conn[sessOwner[s]] = "open"

\* C33: after a kill request of the owner, the session's process eventually
\* terminates and its pseudo-terminal is eventually closed, whatever the process
\* does with the termination signal.
C33_KilledProcessEnds ==
    /\ \A s \in SessionIds : KilledByOwner(s) ~> (proc[s] = "exited")
    /\ \A s \in SessionIds : KilledByOwner(s) ~> (ptyCloses[s] = 1)

\* C34: the per-connection indexes agree with the maps: a session id is listed in
\* the shell index of connection c exactly if the session map holds it with owner
\* c, and the watch index of c marks path p exactly if the watcher map has the key
\* (c, p).
C34_IndexesAgreeWithMaps ==
    /\ \A c \in Conns, s \in SessionIds :
           (s \in SeqSet(ClientSessions(c))) <=> (s \in sessions /\ sessOwner[s] = c)
    /\ \A c \in Conns, path \in Paths :
           (c \in DOMAIN fsClients /\ path \in fsClients[c]) <=> (<<c, path>> \in DOMAIN watchers)

\* a connection with a registered session and a registered watch after one of its
\* watches was removed: the index still exists and no longer marks that path
C34_Witness ==
    \E c \in Conns :
        /\ conn[c] = "open"
        /\ \E s \in sessions : sessOwner[s] = c /\ s \in SeqSet(ClientSessions(c))
        /\ \E path \in Paths : <<c, path>> \in DOMAIN watchers /\ path \in fsClients[c]
        /\ \E w \in WatcherIds :
               wKey[w][1] = c /\ wCloses[w] > 0 /\ wKey[w] \notin DOMAIN watchers
                   /\ wKey[w][2] \notin fsClients[c]

\* C35: the shell-spawned event of a session is emitted before any shell-output or
\* shell-exit event of that session: no such event is emitted while the spawn
\* handler of the session has yet to emit shell-spawned.
C35_SpawnedBeforeOutput ==
    \A i \in 1..Len(emitted) :
        emitted[i].name \in {"shell:output", "shell:exit"} =>
            ~\E c \in Conns : handler[c].op = "spawn" /\ handler[c].sid = emitted[i].sid

\* C36: sendInput never writes to a pseudo-terminal that has been closed.
C36_NoWriteToClosedPty ==
    \A i \in 1..Len(sys) : sys[i].call # "pty.Write(closed)"

Waiting(a) ==
    /\ script[a] # <<>>
    /\ LET l == Head(script[a]).lock
       IN \/ NextOp(a, "Lock") /\ (a \in lk[l].waiting \/ lk[l].writer = a)
          \/ NextOp(a, "RLock") /\ a \in lk[l].blocked

Holds(a, l) == lk[l].writer = a \/ a \in lk[l].readers

\* C37: the control plane is deadlock-free: an activity that waits for the shell
\* registry lock, the watch registry lock, the monitor registry lock or a monitor's
\* own lock gets it eventually, and no activity holds a monitor's own lock while it
\* requests a registry lock.
C37_NoDeadlock ==
    /\ \A a \in Activities : Waiting(a) ~> ~Waiting(a)
    /\ [](\A a \in Activities :
             (script[a] # <<>> /\ Head(script[a]).op \in {"Lock", "RLock"}
                  /\ Head(script[a]).lock \in RegistryLocks) =>
                 \A m \in MonitorIds : ~Holds(a, OwnLock(m)))

\* one activity holds the monitor registry lock and waits in Stop() for a monitor's
\* own lock, which a polling loop holds for reading, while a third activity waits
\* for the registry lock
C37_Witness ==
    \E a \in Activities, b \in Activities, c \in Activities, m \in MonitorIds :
        /\ lk[MonitorLock].writer = a
        /\ lk[OwnLock(m)].writer = a
        /\ b \in lk[OwnLock(m)].readers
        /\ c \in lk[MonitorLock].waiting
        /\ Waiting(a) /\ Waiting(c)

====
